---- MODULE Spec2Model ----
(***************************************************************************)
(* Mermaid source text -> semantic graph (parseMermaidToGraph) -> visual   *)
(* state (autoLayout) -> renderer records (toReactFlow).                   *)
(*                                                                         *)
(* A line of text is a sequence of one-character strings; indices into a   *)
(* line are zero-based as in the TypeScript source.  Identifiers are real  *)
(* strings, built by concatenation, so that synthesized ids such as        *)
(* e-A-B-0 are what the code formats.                                      *)
(***************************************************************************)
EXTENDS Integers, Sequences, FiniteSets, TLC

\* ------------------------------------------------------------------------
\* Characters and strings
\* ------------------------------------------------------------------------

UpperChars ==
    <<"A","B","C","D","E","F","G","H","I","J","K","L","M",
      "N","O","P","Q","R","S","T","U","V","W","X","Y","Z">>

LowerChars ==
    <<"a","b","c","d","e","f","g","h","i","j","k","l","m",
      "n","o","p","q","r","s","t","u","v","w","x","y","z">>

DigitChars == <<"0","1","2","3","4","5","6","7","8","9">>

Range(s) == { s[k] : k \in DOMAIN s }

\* [A-Za-z0-9_]
IdChars == Range(UpperChars) \cup Range(LowerChars) \cup Range(DigitChars) \cup {"_"}

\* \s
SpaceChars == {" ", "\t", "\n"}

\* [\[\(\{]
OpenChars == {"[", "(", "{"}

\* [\]\)\}]
CloseChars == {"]", ")", "}"}

\* [\-\.=:\~]
OperatorChars == {"-", ".", "=", ":", "~"}

toLowerCase(c) ==
    IF c \in Range(UpperChars)
    THEN LowerChars[CHOOSE k \in DOMAIN UpperChars : UpperChars[k] = c]
    ELSE c

LowerSeq(s) == [k \in DOMAIN s |-> toLowerCase(s[k])]

\* JS s[i]; "" stands for undefined (no character is the empty string)
At(s, i) == IF i >= 0 /\ i < Len(s) THEN s[i + 1] ELSE ""

\* JS s.slice(a, b) for 0 <= a, b
Slice(s, a, b) ==
    LET hi == IF b > Len(s) THEN Len(s) ELSE b
    IN  IF a >= hi THEN <<>> ELSE SubSeq(s, a + 1, hi)

SliceFrom(s, a) == Slice(s, a, Len(s))

\* JS s.startsWith(pat, i)
StartsWith(s, pat, i) ==
    /\ i + Len(pat) <= Len(s)
    /\ \A k \in 1..Len(pat) : s[i + k] = pat[k]

\* JS s.indexOf(pat, from): -1 when absent
IndexOf(s, pat, from) ==
    LET hits == { i \in from..(Len(s) - Len(pat)) : StartsWith(s, pat, i) }
    IN  IF hits = {} THEN -1 ELSE CHOOSE i \in hits : \A j \in hits : i <= j

Includes(s, pat) == IndexOf(s, pat, 0) # -1

\* index of the first character at or after i that is not white space
SkipSpaces(s, i) ==
    LET rest == { j \in i..(Len(s) - 1) : At(s, j) \notin SpaceChars }
    IN  IF rest = {} THEN (IF i > Len(s) THEN i ELSE Len(s))
        ELSE CHOOSE j \in rest : \A k \in rest : j <= k

\* index after the longest run of characters of set cs that starts at i
RunEnd(s, i, cs) ==
    LET rest == { j \in i..(Len(s) - 1) : At(s, j) \notin cs }
    IN  IF rest = {} THEN (IF i > Len(s) THEN i ELSE Len(s))
        ELSE CHOOSE j \in rest : \A k \in rest : j <= k

\* JS s.trim()
Trim(s) ==
    LET keep == { k \in DOMAIN s : s[k] \notin SpaceChars }
    IN  IF keep = {} THEN <<>>
        ELSE LET lo == CHOOSE k \in keep : \A j \in keep : k <= j
                 hi == CHOOSE k \in keep : \A j \in keep : k >= j
             IN  SubSeq(s, lo, hi)

\* the string spelled by a sequence of characters
RECURSIVE Str(_)
Str(s) == IF s = <<>> THEN "" ELSE Head(s) \o Str(Tail(s))

\* join lines with "\n" (JS lines.join("\n"))
RECURSIVE Join(_)
Join(ls) ==
    IF ls = <<>> THEN <<>>
    ELSE IF Len(ls) = 1 THEN ls[1]
    ELSE ls[1] \o <<"\n">> \o Join(Tail(ls))

\* number of characters of s that are in set cs
RECURSIVE CountIn(_, _)
CountIn(s, cs) ==
    IF s = <<>> THEN 0
    ELSE (IF Head(s) \in cs THEN 1 ELSE 0) + CountIn(Tail(s), cs)

\* ------------------------------------------------------------------------
\* Label cleanup (cleanLabel)
\* ------------------------------------------------------------------------

\* the printable characters with codes 32..126, in code order (the grave
\* accent, code 96, cannot be written in a string here and is spelled U+96)
AsciiChars ==
    <<
      " ","!","\"","#","$","%","&","'","(",")","*","+",
      ",","-",".","/","0","1","2","3","4","5","6","7",
      "8","9",":",";","<","=",">","?","@","A","B","C",
      "D","E","F","G","H","I","J","K","L","M","N","O",
      "P","Q","R","S","T","U","V","W","X","Y","Z","[",
      "\\","]","^","_","U+96","a","b","c","d","e","f","g",
      "h","i","j","k","l","m","n","o","p","q","r","s",
      "t","u","v","w","x","y","z","{","|","}","~"
    >>

HexDigits ==
    <<"0","1","2","3","4","5","6","7","8","9","a","b","c","d","e","f">>

IsHex(c) == toLowerCase(c) \in Range(HexDigits)

HexVal(c) == (CHOOSE k \in DOMAIN HexDigits : HexDigits[k] = toLowerCase(c)) - 1

\* String.fromCharCode(code); a code outside 32..126 (and newline) is kept as
\* one opaque character
fromCharCode(code) ==
    IF code >= 32 /\ code <= 126 THEN AsciiChars[code - 31]
    ELSE IF code = 10 THEN "\n"
    ELSE "U+" \o ToString(code)

\* end index of a <br\s*\/?> tag that starts at i, or -1
BrTagEnd(s, i) ==
    IF /\ At(s, i) = "<"
       /\ toLowerCase(At(s, i + 1)) = "b"
       /\ toLowerCase(At(s, i + 2)) = "r"
    THEN LET j == SkipSpaces(s, i + 3)
             k == IF At(s, j) = "/" THEN j + 1 ELSE j
         IN  IF At(s, k) = ">" THEN k + 1 ELSE -1
    ELSE -1

\* .replace(/<br\s*\/?>/gi, "\n")
RECURSIVE ReplaceBr(_, _)
ReplaceBr(s, i) ==
    IF i >= Len(s) THEN <<>>
    ELSE LET from(tagEnd) == IF tagEnd # -1
                             THEN <<"\n">> \o ReplaceBr(s, tagEnd)
                             ELSE <<At(s, i)>> \o ReplaceBr(s, i + 1)
         IN  from(BrTagEnd(s, i))

\* .replace(/<[^>]*>/g, "")
RECURSIVE StripTags(_, _)
StripTags(s, i) ==
    IF i >= Len(s) THEN <<>>
    ELSE IF At(s, i) = "<" /\ IndexOf(s, <<">">>, i + 1) # -1
         THEN StripTags(s, IndexOf(s, <<">">>, i + 1) + 1)
         ELSE <<At(s, i)>> \o StripTags(s, i + 1)

\* .replace(/\\u([0-9a-fA-F]{4})/g, fromCharCode)
RECURSIVE DecodeUnicode(_, _)
DecodeUnicode(s, i) ==
    IF i >= Len(s) THEN <<>>
    ELSE IF /\ At(s, i) = "\\"
            /\ At(s, i + 1) = "u"
            /\ \A k \in 2..5 : IsHex(At(s, i + k))
         THEN <<fromCharCode(HexVal(At(s, i + 2)) * 4096 + HexVal(At(s, i + 3)) * 256
                             + HexVal(At(s, i + 4)) * 16 + HexVal(At(s, i + 5)))>>
              \o DecodeUnicode(s, i + 6)
         ELSE <<At(s, i)>> \o DecodeUnicode(s, i + 1)

\* .replace(/\\n/g, "\n")
RECURSIVE DecodeNewlines(_, _)
DecodeNewlines(s, i) ==
    IF i >= Len(s) THEN <<>>
    ELSE IF At(s, i) = "\\" /\ At(s, i + 1) = "n"
         THEN <<"\n">> \o DecodeNewlines(s, i + 2)
         ELSE <<At(s, i)>> \o DecodeNewlines(s, i + 1)

\* .replace(/\s*\n\s*/g, "\n"): a maximal run of white space that holds a
\* newline becomes one newline
RECURSIVE CollapseNewlines(_, _)
CollapseNewlines(s, i) ==
    IF i >= Len(s) THEN <<>>
    ELSE LET e == RunEnd(s, i, SpaceChars)
         IN  IF e > i /\ \E k \in i..(e - 1) : At(s, k) = "\n"
             THEN <<"\n">> \o CollapseNewlines(s, e)
             ELSE IF e > i
                  THEN Slice(s, i, e) \o CollapseNewlines(s, e)
                  ELSE <<At(s, i)>> \o CollapseNewlines(s, i + 1)

cleanLabel(label) ==
    Trim(CollapseNewlines(
           DecodeNewlines(
             DecodeUnicode(
               StripTags(ReplaceBr(label, 0), 0), 0), 0), 0))

\* ------------------------------------------------------------------------
\* Node shapes (getNodeKind)
\* ------------------------------------------------------------------------

getNodeKind(nodeDefinition) ==
    IF Includes(nodeDefinition, <<"{">>) /\ Includes(nodeDefinition, <<"}">>)
    THEN "diamond"
    ELSE IF Includes(nodeDefinition, <<"(", "(">>) /\ Includes(nodeDefinition, <<")", ")">>)
    THEN "circle"
    ELSE IF Includes(nodeDefinition, <<"(", "[">>) /\ Includes(nodeDefinition, <<"]", ")">>)
    THEN "stadium"
    ELSE IF Includes(nodeDefinition, <<"[">>) /\ Includes(nodeDefinition, <<"]">>)
    THEN "rect"
    ELSE IF Includes(nodeDefinition, <<"(">>) /\ Includes(nodeDefinition, <<")">>)
    THEN "round"
    ELSE "rect"

closeCharOf(openChar) ==
    IF openChar = "[" THEN "]" ELSE IF openChar = "(" THEN ")" ELSE "}"

\* index after the longest run of characters outside set cs that starts at i
RunEndNot(s, i, cs) ==
    LET rest == { j \in i..(Len(s) - 1) : At(s, j) \in cs }
    IN  IF rest = {} THEN (IF i > Len(s) THEN i ELSE Len(s))
        ELSE CHOOSE j \in rest : \A k \in rest : j <= k

\* ------------------------------------------------------------------------
\* Subgraph lines (parseSubgraphLine)
\* ------------------------------------------------------------------------

SlugChars == Range(LowerChars) \cup Range(DigitChars)

\* .replace(/[^a-z0-9]+/g, "-")
RECURSIVE SlugRuns(_, _)
SlugRuns(s, i) ==
    IF i >= Len(s) THEN <<>>
    ELSE IF At(s, i) \in SlugChars
         THEN <<At(s, i)>> \o SlugRuns(s, i + 1)
         ELSE <<"-">> \o SlugRuns(s, RunEndNot(s, i, SlugChars))

\* .replace(/^-+|-+$/g, "")
TrimDashes(s) ==
    LET keep == { k \in DOMAIN s : s[k] # "-" }
    IN  IF keep = {} THEN <<>>
        ELSE LET lo == CHOOSE k \in keep : \A j \in keep : k <= j
                 hi == CHOOSE k \in keep : \A j \in keep : k >= j
             IN  SubSeq(s, lo, hi)

\* the decimal digits of a natural number
RECURSIVE DecChars(_)
DecChars(n) ==
    IF n < 10 THEN <<DigitChars[n + 1]>>
    ELSE DecChars(n \div 10) \o <<DigitChars[(n % 10) + 1]>>

\* title.toLowerCase().replace(...).replace(...) || "sg-" + lineIndex
SlugId(title, lineIndex) ==
    LET slug == TrimDashes(SlugRuns(LowerSeq(title), 0))
    IN  IF slug = <<>> THEN <<"s", "g", "-">> \o DecChars(lineIndex) ELSE slug

QuoteChars == {"\"", "'"}

SubgraphKeyword == <<"s","u","b","g","r","a","p","h">>

\* The result of parseSubgraphLine: ok = FALSE stands for null.  The stack
\* parameter of the source is unused there and is left out.
parseSubgraphLine(line, lineIndex) ==
    LET rest == Trim(SliceFrom(line, Len(SubgraphKeyword)))
        \* /^(["'])(.*?)\1/
        quoteEnd == IF At(rest, 0) \in QuoteChars
                    THEN IndexOf(rest, <<At(rest, 0)>>, 1) ELSE -1
        \* /^([^\s\[]+)(?:\s*\[(.+?)\])?/
        idEnd == RunEndNot(rest, 0, SpaceChars \cup {"["})
        brOpen == SkipSpaces(rest, idEnd)
        brClose == IF idEnd > 0 /\ At(rest, brOpen) = "["
                   THEN IndexOf(rest, <<"]">>, brOpen + 2) ELSE -1
        bracketId == IF idEnd > 0 THEN Slice(rest, 0, idEnd) ELSE <<>>
        bracketLabel == IF brClose # -1 THEN Slice(rest, brOpen + 1, brClose) ELSE <<>>
        hasSpace == IndexOf(rest, <<" ">>, 0) # -1
        \* /^[^\s]+\s+(["'])(.*?)\1/
        altIdEnd == RunEndNot(rest, 0, SpaceChars)
        altQ == SkipSpaces(rest, altIdEnd)
        altEnd == IF altIdEnd > 0 /\ altQ > altIdEnd /\ At(rest, altQ) \in QuoteChars
                  THEN IndexOf(rest, <<At(rest, altQ)>>, altQ + 1) ELSE -1
        result(subgraphId, subgraphLabel) ==
            IF subgraphId # <<>>
            THEN [ok |-> TRUE, id |-> Str(subgraphId),
                  label |-> IF subgraphLabel # <<>> THEN cleanLabel(subgraphLabel)
                            ELSE subgraphId]
            ELSE [ok |-> FALSE, id |-> "", label |-> <<>>]
    IN  result(IF quoteEnd # -1 THEN SlugId(Slice(rest, 1, quoteEnd), lineIndex)
               ELSE IF bracketLabel = <<>> /\ hasSpace THEN SlugId(rest, lineIndex)
               ELSE bracketId,
               IF quoteEnd # -1 THEN Slice(rest, 1, quoteEnd)
               ELSE IF bracketLabel # <<>> THEN bracketLabel
               ELSE IF hasSpace THEN rest
               ELSE IF altEnd # -1 THEN Slice(rest, altQ + 1, altEnd)
               ELSE <<>>)

\* ------------------------------------------------------------------------
\* Edge lines (extractToken, parseEdgeLine)
\* ------------------------------------------------------------------------

NoToken == [ok |-> FALSE, id |-> <<>>, full |-> <<>>, endIndex |-> 0]

extractToken(str, startIndex) ==
    LET idStart == SkipSpaces(str, startIndex)
        idx == RunEnd(str, idStart, IdChars)
        openPos == SkipSpaces(str, idx)
        openChar == At(str, openPos)
        closePos == IF openChar \in OpenChars
                    THEN IndexOf(str, <<closeCharOf(openChar)>>, openPos + 1) ELSE -1
    IN  IF idx = idStart THEN NoToken
        ELSE IF closePos # -1
             THEN [ok |-> TRUE, id |-> Slice(str, idStart, idx),
                   full |-> Trim(Slice(str, idStart, closePos + 1)),
                   endIndex |-> closePos + 1]
             ELSE [ok |-> TRUE, id |-> Slice(str, idStart, idx),
                   full |-> Slice(str, idStart, idx), endIndex |-> idx]

arrowHeads ==
    << <<"-",".","-",">">>, <<"-","-",">">>, <<"=","=",">">>, <<"-",">",">">>,
       <<"<","-",">">>, <<"-","<",">">>, <<"<","-">>, <<"-",">">> >>

\* the legacy operators, as operators.sort((a, b) => b.length - a.length)
\* orders them (the sort is stable)
operators ==
    << <<"-","-","-">>, <<"-",".","-">>, <<":","-",":">>, <<".",".",".">>,
       <<"=","=","=">>, <<":",":">>, <<"~">> >>

\* between.replace(/^\s*[\-\.=:\~]+\s*/g, "")
StripLeadingOperator(s) ==
    LET a == SkipSpaces(s, 0)
        b == RunEnd(s, a, OperatorChars)
    IN  IF b > a THEN SliceFrom(s, SkipSpaces(s, b)) ELSE s

\* .replace(/\s*[\-\.=:\~]+\s*$/g, "")
StripTrailingOperator(s) ==
    LET t == { k \in 0..(Len(s) - 1) :
                 LET m == SkipSpaces(s, k)
                     e == RunEnd(s, m, OperatorChars)
                 IN  e > m /\ SkipSpaces(s, e) = Len(s) }
    IN  IF t = {} THEN s
        ELSE Slice(s, 0, CHOOSE k \in t : \A j \in t : k <= j)

\* a |label| that starts at index i: the index after it and its text
PipeLabel(line, i) ==
    LET next == IF At(line, i) = "|" THEN IndexOf(line, <<"|">>, i + 1) ELSE -1
    IN  IF next # -1
        THEN [found |-> TRUE, label |-> Slice(line, i + 1, next), endIndex |-> next + 1]
        ELSE [found |-> FALSE, label |-> <<>>, endIndex |-> i]

NoEdge == [ok |-> FALSE, sourceId |-> <<>>, targetId |-> <<>>,
           edgeType |-> <<>>, edgeLabel |-> <<>>]

\* The result of parseEdgeLine: ok = FALSE stands for null.  What the function
\* holds in src, foundArrowIndex, i and tgt is an argument of a local
\* operator here, in the order the function computes them.
parseEdgeLine(line) ==
    LET fromSource(src) ==
            LET i0 == SkipSpaces(line, src.endIndex)
                hits == { k \in DOMAIN arrowHeads : IndexOf(line, arrowHeads[k], i0) # -1 }
                idxs == { IndexOf(line, arrowHeads[k], i0) : k \in hits }
                fromArrow(foundArrowIndex) ==
                    LET best == { k \in hits :
                                    IndexOf(line, arrowHeads[k], i0) = foundArrowIndex }
                        foundArrow ==
                            IF hits = {} THEN <<>>
                            ELSE arrowHeads[CHOOSE k \in best : \A j \in best : k <= j]
                        \* arrow branch
                        between == Slice(line, i0, foundArrowIndex)
                        pre1 == IndexOf(between, <<"|">>, 0)
                        pre2 == IF pre1 # -1 THEN IndexOf(between, <<"|">>, pre1 + 1) ELSE -1
                        inline == Trim(StripTrailingOperator(StripLeadingOperator(between)))
                        labelBefore == IF pre2 # -1 THEN Slice(between, pre1 + 1, pre2)
                                       ELSE inline
                        \* legacy branch
                        legacy == { k \in DOMAIN operators : StartsWith(line, operators[k], i0) }
                        legacyOp ==
                            IF legacy = {} THEN <<>>
                            ELSE operators[CHOOSE k \in legacy : \A j \in legacy : k <= j]
                        op == IF foundArrowIndex # -1 THEN foundArrow ELSE legacyOp
                        i1 == IF foundArrowIndex # -1 THEN foundArrowIndex + Len(foundArrow)
                              ELSE i0 + Len(legacyOp)
                        fromPipe(pipe) ==
                            LET edgeLabel ==
                                    IF pipe.found THEN pipe.label
                                    ELSE IF foundArrowIndex # -1 THEN labelBefore ELSE <<>>
                                fromTarget(tgt) ==
                                    IF ~tgt.ok THEN NoEdge
                                    ELSE [ok |-> TRUE, sourceId |-> src.id, targetId |-> tgt.id,
                                          edgeType |-> op, edgeLabel |-> cleanLabel(edgeLabel)]
                            IN  fromTarget(extractToken(line, SkipSpaces(line, pipe.endIndex)))
                    IN  IF op = <<>> THEN NoEdge
                        ELSE fromPipe(PipeLabel(line, SkipSpaces(line, i1)))
            IN  IF ~src.ok THEN NoEdge
                ELSE fromArrow(IF hits = {} THEN -1
                               ELSE CHOOSE x \in idxs : \A y \in idxs : x <= y)
    IN  fromSource(extractToken(line, 0))

\* ------------------------------------------------------------------------
\* Standalone node lines (parseStandaloneNode) and the records of the graph
\* ------------------------------------------------------------------------

\* An absent optional field (parent, direction, an edge's label) is the empty
\* string or the empty sequence, which JavaScript also treats as false.
Undefined == ""

\* A plain object literal {} used as a map: besides its own keys, a lookup
\* finds what Object.prototype holds.
ObjectPrototypeKeys ==
    {"constructor", "hasOwnProperty", "isPrototypeOf", "propertyIsEnumerable",
     "toLocaleString", "toString", "valueOf", "__proto__",
     "__defineGetter__", "__defineSetter__", "__lookupGetter__", "__lookupSetter__"}

\* The maps keep their entries in insertion order (Object.keys order; no
\* modelled key is an array index).
hasOwn(map, key) == \E k \in DOMAIN map : map[k].id = key

getOwn(map, key) == map[CHOOSE k \in DOMAIN map : map[k].id = key]

keysOf(map) == [k \in DOMAIN map |-> map[k].id]

\* map[key] = value for an own key: replaces in place or appends
setOwn(map, key, value) ==
    IF hasOwn(map, key)
    THEN [k \in DOMAIN map |-> IF map[k].id = key THEN value ELSE map[k]]
    ELSE Append(map, value)

\* nodeMap[key] is truthy
nodeMapHas(nodes, key) == hasOwn(nodes, key) \/ key \in ObjectPrototypeKeys

\* The subgraph map is the pair of its own entries and the object that an
\* assignment to the key __proto__ made its prototype (a sequence of length
\* 0 or 1).  The fields of that prototype object are found by lookups too.
protoFields(proto) ==
    IF proto = <<>> THEN {}
    ELSE {"id", "label", "children"}
         \cup (IF proto[1].parent # Undefined THEN {"parent"} ELSE {})
         \cup (IF proto[1].direction # Undefined THEN {"direction"} ELSE {})

\* subgraphMap[key] !== undefined (every value found is also truthy)
\* a lookup that finds no declared subgraph
subgraphMapHas_Never(own, proto, key) == FALSE

subgraphMapHas(own, proto, key) ==
    \/ hasOwn(own, key)
    \/ key \in ObjectPrototypeKeys
    \/ key \in protoFields(proto)

\* the subgraph record a lookup of a declared subgraph id returns
subgraphMapGet(own, proto, key) ==
    IF hasOwn(own, key) THEN getOwn(own, key) ELSE proto[1]

isSubgraphRecord(own, proto, key) ==
    hasOwn(own, key) \/ (key = "__proto__" /\ proto # <<>>)

parseStandaloneNode(line, existingNodes, own, proto) ==
    LET idEnd == RunEnd(line, 0, IdChars)
        id == Str(Slice(line, 0, idEnd))
        \* /^([A-Za-z0-9_]+)([\[\(\{][^\]\)\}]*[\]\)\}])/
        shaped == /\ idEnd > 0
                  /\ At(line, idEnd) \in OpenChars
                  /\ \E k \in (idEnd + 1)..(Len(line) - 1) : At(line, k) \in CloseChars
        \* /^([A-Za-z0-9_]+)$/
        bare == idEnd > 0 /\ idEnd = Len(line)
    IN  IF (shaped \/ bare) /\ ~nodeMapHas(existingNodes, id)
                            /\ ~subgraphMapHas(own, proto, id)
        THEN Slice(line, 0, idEnd)
        ELSE <<>>

\* definitions.get(nodeId): the definitions table is a Map, a function here
createNode(nodeId, parentSubgraph, definitions) ==
    [id |-> Str(nodeId),
     label |-> IF Str(nodeId) \in DOMAIN definitions
               THEN definitions[Str(nodeId)].label ELSE nodeId,
     kind |-> IF Str(nodeId) \in DOMAIN definitions
              THEN definitions[Str(nodeId)].kind ELSE "rect",
     parent |-> parentSubgraph]

\* ------------------------------------------------------------------------
\* Definition scan (scanNodeDefinitions)
\* ------------------------------------------------------------------------

\* One attempt of /(^|[\s\-\>]|\|[^|]*\|)([A-Za-z0-9_]+)([\[\(\{])/ at index p:
\* the index where the id starts, or -1.
DefMatchAt(line, p) ==
    LET ok(idStart) == /\ RunEnd(line, idStart, IdChars) > idStart
                       /\ At(line, RunEnd(line, idStart, IdChars)) \in OpenChars
        bar == IF At(line, p) = "|" THEN IndexOf(line, <<"|">>, p + 1) ELSE -1
    IN  IF p = 0 /\ ok(0) THEN 0
        ELSE IF At(line, p) \in SpaceChars \cup {"-", ">"} /\ ok(p + 1) THEN p + 1
        ELSE IF bar # -1 /\ ok(bar + 1) THEN bar + 1
        ELSE -1

\* index of the matching close character by depth counting, or -1
RECURSIVE MatchingClose(_, _, _, _)
MatchingClose(line, i, depth, openChar) ==
    IF i >= Len(line) THEN -1
    ELSE IF At(line, i) = openChar
         THEN MatchingClose(line, i + 1, depth + 1, openChar)
    ELSE IF At(line, i) = closeCharOf(openChar)
         THEN IF depth - 1 = 0 THEN i
              ELSE MatchingClose(line, i + 1, depth - 1, openChar)
    ELSE MatchingClose(line, i + 1, depth, openChar)

\* rawLabel.replace(/^"(.*)"$/, "$1").replace(/^'(.*)'$/, "$1")
StripQuotes(s) ==
    LET one(t, q) == IF Len(t) >= 2 /\ t[1] = q /\ t[Len(t)] = q
                     THEN SubSeq(t, 2, Len(t) - 1) ELSE t
    IN  one(one(s, "\""), "'")

\* the definition that the match with its id at matchStart yields, if any
DefinitionAt(line, matchStart) ==
    LET openIndex == RunEnd(line, matchStart, IdChars)
        openChar == At(line, openIndex)
        \* fallback /([A-Za-z0-9_]+)([\[\(\{][^\]\)\}]*[\]\)\}])/ on the rest
        anyClose == { k \in (openIndex + 1)..(Len(line) - 1) : At(line, k) \in CloseChars }
        fallbackEnd == IF anyClose = {} THEN -1
                       ELSE CHOOSE k \in anyClose : \A j \in anyClose : k <= j
        endingAt(endIndex) ==
            LET fullDef == Slice(line, matchStart, endIndex + 1)
                shapeDef == Slice(line, openIndex, endIndex + 1)
            IN  IF endIndex = -1
                THEN [found |-> FALSE, label |-> <<>>, kind |-> "", fullDef |-> <<>>]
                ELSE [found |-> TRUE,
                      label |-> cleanLabel(StripQuotes(Slice(shapeDef, 1, Len(shapeDef) - 1))),
                      kind |-> getNodeKind(fullDef),
                      fullDef |-> fullDef]
        closedAt(closeIndex) == endingAt(IF closeIndex # -1 THEN closeIndex ELSE fallbackEnd)
    IN  closedAt(MatchingClose(line, openIndex, 0, openChar))

mapSet(map, key, value) ==
    [x \in DOMAIN map \cup {key} |-> IF x = key THEN value ELSE map[x]]

\* the exec loop from lastIndex on
RECURSIVE ScanFrom(_, _, _, _)
ScanFrom(line, lastIndex, processedMatches, definitions) ==
    LET matchedAt(matchStart) ==
            LET idEnd == RunEnd(line, matchStart, IdChars)
                nodeId == Str(Slice(line, matchStart, idEnd))
                defined(def) ==
                    IF def.found
                    THEN mapSet(definitions, nodeId,
                                [label |-> def.label, kind |-> def.kind,
                                 fullDef |-> def.fullDef])
                    ELSE definitions
            IN  IF matchStart \in processedMatches \/ nodeId \in DOMAIN definitions
                THEN ScanFrom(line, idEnd + 1, processedMatches, definitions)
                ELSE ScanFrom(line, idEnd + 1, processedMatches \cup {matchStart},
                              defined(DefinitionAt(line, matchStart)))
        from(starts) ==
            IF starts = {} THEN definitions
            ELSE matchedAt(DefMatchAt(line, CHOOSE x \in starts : \A y \in starts : x <= y))
    IN  from({ p \in lastIndex..(Len(line) - 1) : DefMatchAt(line, p) # -1 })

\* a scan in which the definitions of the line replace the earlier ones
scanNodeDefinitions_LastWins(line, definitions) ==
    LET own == ScanFrom(line, 0, {}, <<>>)
    IN  [x \in DOMAIN definitions \cup DOMAIN own |->
            IF x \in DOMAIN own THEN own[x] ELSE definitions[x]]

scanNodeDefinitions(line, definitions) == ScanFrom(line, 0, {}, definitions)

EndKeyword == <<"e","n","d">>

CommentPrefix == <<"%","%">>

\* lines.forEach of the pre-scan
RECURSIVE PreScanLines(_, _)
PreScanLines(ls, definitions) ==
    IF ls = <<>> THEN definitions
    ELSE LET trimmedLine == Trim(Head(ls))
         IN  IF \/ trimmedLine = <<>>
                \/ StartsWith(trimmedLine, SubgraphKeyword, 0)
                \/ trimmedLine = EndKeyword
                \/ StartsWith(trimmedLine, CommentPrefix, 0)
             THEN PreScanLines(Tail(ls), definitions)
             ELSE PreScanLines(Tail(ls), scanNodeDefinitions(trimmedLine, definitions))

\* ------------------------------------------------------------------------
\* Cleanup of the source text (preprocessMultilineDefinitions, header)
\* ------------------------------------------------------------------------

\* the inner while loop: joins following lines until the brackets balance
RECURSIVE CombineFrom(_, _, _, _, _)
CombineFrom(rawLines, j, combinedLine, currentOpen, currentClose) ==
    IF j < Len(rawLines) /\ currentOpen > currentClose
    THEN LET nextLine == Trim(rawLines[j + 1])
         IN  CombineFrom(rawLines, j + 1, combinedLine \o <<" ">> \o nextLine,
                         currentOpen + CountIn(nextLine, OpenChars),
                         currentClose + CountIn(nextLine, CloseChars))
    ELSE [line |-> combinedLine, next |-> j]

RECURSIVE PreprocessFrom(_, _)
PreprocessFrom(rawLines, i) ==
    IF i >= Len(rawLines) THEN <<>>
    ELSE LET line == Trim(rawLines[i + 1])
             openBrackets == CountIn(line, OpenChars)
             closeBrackets == CountIn(line, CloseChars)
         IN  IF openBrackets > closeBrackets /\ i < Len(rawLines) - 1
             THEN LET c == CombineFrom(rawLines, i + 1, line, openBrackets, closeBrackets)
                  IN  <<c.line>> \o PreprocessFrom(rawLines, c.next)
             ELSE <<line>> \o PreprocessFrom(rawLines, i + 1)

\* on a sequence of lines (the text split at "\n") to a sequence of lines
preprocessMultilineDefinitions(rawLines) == PreprocessFrom(rawLines, 0)

\* the comment test applied to the line as written, before it is trimmed
RECURSIVE TrimAndFilter_UntrimmedTest(_)
TrimAndFilter_UntrimmedTest(ls) ==
    IF ls = <<>> THEN <<>>
    ELSE LET line == Trim(Head(ls))
         IN  IF line # <<>> /\ ~StartsWith(Head(ls), CommentPrefix, 0)
             THEN <<line>> \o TrimAndFilter_UntrimmedTest(Tail(ls))
             ELSE TrimAndFilter_UntrimmedTest(Tail(ls))

\* .split("\n").map(trim).filter(line && !line.startsWith("%%"))
RECURSIVE TrimAndFilter(_)
TrimAndFilter(ls) ==
    IF ls = <<>> THEN <<>>
    ELSE LET line == Trim(Head(ls))
         IN  IF line # <<>> /\ ~StartsWith(line, CommentPrefix, 0)
             THEN <<line>> \o TrimAndFilter(Tail(ls))
             ELSE TrimAndFilter(Tail(ls))

cleanLines(mermaidCode) == preprocessMultilineDefinitions(TrimAndFilter(mermaidCode))

DirectionWords == << <<"t","b">>, <<"t","d">>, <<"b","t">>, <<"r","l">>, <<"l","r">> >>

DirectionNames == <<"TB", "TB", "BT", "RL", "LR">>

directionAt(text, i) ==
    LET w == { k \in DOMAIN DirectionWords : StartsWith(LowerSeq(text), DirectionWords[k], i) }
    IN  IF w = {} THEN Undefined ELSE DirectionNames[CHOOSE k \in w : TRUE]

\* cleanCode.match(/(?:flowchart|graph)\s+(TB|TD|BT|RL|LR)/i), TD read as TB;
\* TB when there is no match
headerDirection(ls) ==
    LET text == Join(ls)
        low == LowerSeq(text)
        kwEnd(p) == IF StartsWith(low, <<"f","l","o","w","c","h","a","r","t">>, p) THEN p + 9
                    ELSE IF StartsWith(low, <<"g","r","a","p","h">>, p) THEN p + 5
                    ELSE -1
        hits == { p \in 0..(Len(text) - 1) :
                    /\ kwEnd(p) # -1
                    /\ SkipSpaces(text, kwEnd(p)) > kwEnd(p)
                    /\ directionAt(text, SkipSpaces(text, kwEnd(p))) # Undefined }
    IN  IF hits = {} THEN "TB"
        ELSE LET p == CHOOSE x \in hits : \A y \in hits : x <= y
             IN  directionAt(text, SkipSpaces(text, kwEnd(p)))

\* ------------------------------------------------------------------------
\* The two passes of parseMermaidToGraph, one line at a time
\* ------------------------------------------------------------------------

\* a stack read from the wrong end
Top_Outermost(stack) == IF stack # <<>> THEN stack[1] ELSE Undefined

Top(stack) == IF stack # <<>> THEN stack[Len(stack)] ELSE Undefined

Pop(stack) == SubSeq(stack, 1, Len(stack) - 1)

\* subgraphMap[id] = subgraph: the key __proto__ replaces the prototype and
\* adds no own key
assignSubgraph(own, proto, id, subgraph) ==
    IF id = "__proto__"
    THEN [own |-> own, proto |-> <<subgraph>>]
    ELSE [own |-> setOwn(own, id, subgraph), proto |-> proto]

\* subgraphMap[top].direction = d
setDirection(own, proto, top, d) ==
    IF hasOwn(own, top)
    THEN [own |-> [k \in DOMAIN own |->
                     IF own[k].id = top THEN [own[k] EXCEPT !.direction = d] ELSE own[k]],
          proto |-> proto]
    ELSE IF top = "__proto__" /\ proto # <<>>
    THEN [own |-> own, proto |-> <<[proto[1] EXCEPT !.direction = d]>>]
    ELSE [own |-> own, proto |-> proto]

\* if (currentSubgraph && subgraphMap[currentSubgraph])
\*   subgraphMap[currentSubgraph].children.push(nodeId)
pushChild(own, proto, currentSubgraph, nodeId) ==
    IF currentSubgraph = Undefined THEN [own |-> own, proto |-> proto]
    ELSE IF hasOwn(own, currentSubgraph)
    THEN [own |-> [k \in DOMAIN own |->
                     IF own[k].id = currentSubgraph
                     THEN [own[k] EXCEPT !.children = Append(@, nodeId)] ELSE own[k]],
          proto |-> proto]
    ELSE IF currentSubgraph = "__proto__" /\ proto # <<>>
    THEN [own |-> own, proto |-> <<[proto[1] EXCEPT !.children = Append(@, nodeId)]>>]
    ELSE [own |-> own, proto |-> proto]

DirectionKeyword == <<"d","i","r","e","c","t","i","o","n">>

\* line.match(/^direction\s+(TB|TD|BT|RL|LR)$/i): the direction, TD read as
\* TB, or Undefined
directionLine(line) ==
    LET a == Len(DirectionKeyword)
        b == SkipSpaces(line, a)
    IN  IF /\ StartsWith(LowerSeq(line), DirectionKeyword, 0)
           /\ b > a
           /\ b + 2 = Len(line)
        THEN directionAt(line, b)
        ELSE Undefined

\* one iteration of the first loop (source lines 75-120) on lines[i]
firstPassLine(rawLine, i, stack, own, proto) ==
    LET line == Trim(rawLine)
        same == [stack |-> stack, own |-> own, proto |-> proto]
        declared(subgraphInfo) ==
            LET parentId == Top(stack)
                subgraph == [id |-> subgraphInfo.id, label |-> subgraphInfo.label,
                             parent |-> parentId, children |-> <<>>, direction |-> Undefined]
                m == assignSubgraph(own, proto, subgraphInfo.id, subgraph)
            IN  IF subgraphInfo.ok
                THEN [stack |-> Append(stack, subgraphInfo.id),
                      own |-> m.own, proto |-> m.proto]
                ELSE same
        directed(d) ==
            LET m == setDirection(own, proto, Top(stack), d)
            IN  IF d # Undefined /\ stack # <<>> /\ subgraphMapHas(own, proto, Top(stack))
                THEN [stack |-> stack, own |-> m.own, proto |-> m.proto]
                ELSE same
    IN  IF line = <<>> THEN same
        ELSE IF StartsWith(line, SubgraphKeyword, 0)
        THEN declared(parseSubgraphLine(line, i))
        ELSE IF StartsWith(LowerSeq(line), DirectionKeyword \o <<" ">>, 0)
        THEN directed(directionLine(line))
        ELSE IF line = EndKeyword /\ stack # <<>>
        THEN [stack |-> Pop(stack), own |-> own, proto |-> proto]
        ELSE same

\* an edge id without the running index
edgeIdOf_NoIndex(sourceId, targetId, edgeIndex) ==
    Str(<<"e", "-">> \o sourceId \o <<"-">> \o targetId)

edgeIdOf(sourceId, targetId, edgeIndex) ==
    Str(<<"e", "-">> \o sourceId \o <<"-">> \o targetId \o <<"-">> \o DecChars(edgeIndex))

\* a child pushed for every endpoint, also one whose node exists already
ensureNode_PushAlways(g, isSubgraph, nodeId, currentSubgraph, definitions) ==
    IF ~isSubgraph
    THEN LET m == pushChild(g.own, g.proto, currentSubgraph, Str(nodeId))
         IN  [g EXCEPT !.nodes = IF nodeMapHas(@, Str(nodeId)) THEN @
                                 ELSE Append(@, createNode(nodeId, currentSubgraph, definitions)),
                       !.own = m.own, !.proto = m.proto]
    ELSE g

\* if (!isSubgraph && !nodeMap[id]) { nodeMap[id] = createNode(...); push child }
\* on the record g of the maps
ensureNode(g, isSubgraph, nodeId, currentSubgraph, definitions) ==
    IF ~isSubgraph /\ ~nodeMapHas(g.nodes, Str(nodeId))
    THEN LET m == pushChild(g.own, g.proto, currentSubgraph, Str(nodeId))
         IN  [g EXCEPT !.nodes = Append(@, createNode(nodeId, currentSubgraph, definitions)),
                       !.own = m.own, !.proto = m.proto]
    ELSE g

\* the edge branch of the second loop (source lines 160-201)
edgeBranch(g, edgeResult, currentSubgraph, definitions) ==
    LET isSourceSubgraph == subgraphMapHas(g.own, g.proto, Str(edgeResult.sourceId))
        isTargetSubgraph == subgraphMapHas(g.own, g.proto, Str(edgeResult.targetId))
        g1 == ensureNode(g, isSourceSubgraph, edgeResult.sourceId, currentSubgraph, definitions)
        g2 == ensureNode(g1, isTargetSubgraph, edgeResult.targetId, currentSubgraph, definitions)
        edgeId == edgeIdOf(edgeResult.sourceId, edgeResult.targetId, g.edgeIndex)
        edge == [id |-> edgeId,
                 from |-> Str(edgeResult.sourceId),
                 to |-> Str(edgeResult.targetId),
                 label |-> edgeResult.edgeLabel,
                 kind |-> IF edgeResult.edgeType = <<"<", "-", ">">>
                          THEN "bidirectional" ELSE "directed"]
    IN  [g2 EXCEPT !.edges = setOwn(@, edgeId, edge), !.edgeIndex = @ + 1]

\* the standalone branch of the second loop (source lines 203-214)
standaloneBranch(g, line, currentSubgraph, definitions) ==
    LET standaloneNodeId == parseStandaloneNode(line, g.nodes, g.own, g.proto)
    IN  IF standaloneNodeId # <<>> /\ ~nodeMapHas(g.nodes, Str(standaloneNodeId))
        THEN ensureNode(g, FALSE, standaloneNodeId, currentSubgraph, definitions)
        ELSE g

SkippedPrefixes ==
    { DirectionKeyword \o <<" ">>, <<"f","l","o","w","c","h","a","r","t"," ">>,
      <<"g","r","a","p","h"," ">>, CommentPrefix }

\* one iteration of the second loop (source lines 127-216) on lines[i]; g is
\* the record of the stack, the three maps and the edge counter
secondPassLine(rawLine, i, g, definitions) ==
    LET line == Trim(rawLine)
        currentSubgraph == Top(g.stack)
        entered(info) == IF info.ok THEN [g EXCEPT !.stack = Append(@, info.id)] ELSE g
        connected(edgeResult) ==
            IF edgeResult.ok
            THEN edgeBranch(g, edgeResult, currentSubgraph, definitions)
            ELSE standaloneBranch(g, line, currentSubgraph, definitions)
    IN  IF line = <<>> THEN g
        ELSE IF StartsWith(line, SubgraphKeyword, 0)
        THEN entered(parseSubgraphLine(line, i))
        ELSE IF line = EndKeyword
        THEN IF g.stack # <<>> THEN [g EXCEPT !.stack = Pop(@)] ELSE g
        ELSE IF \E pre \in SkippedPrefixes : StartsWith(line, pre, 0) THEN g
        ELSE connected(parseEdgeLine(line))

\* ------------------------------------------------------------------------
\* Auto-layout (autoLayout and its helpers)
\* ------------------------------------------------------------------------

\* Lengths and coordinates are kept in half pixels, so that width / 2 of an
\* odd width is a number of the model: Px(n) is n pixels, Half(v) is v / 2.
Px(n) == 2 * n

Half(v) == v \div 2

\* Math.max and Math.min of a non-empty set of numbers
MaxOf(S) == CHOOSE x \in S : \A y \in S : y <= x

MinOf(S) == CHOOSE x \in S : \A y \in S : x <= y

RECURSIVE SumSeq(_)
SumSeq(s) == IF s = <<>> THEN 0 ELSE Head(s) + SumSeq(Tail(s))

\* The spacing table LAYOUT_SPACING is imported from constants/layout, which
\* is not among the sources; these are the values the model lays out with,
\* in pixels.
LAYOUT_SPACING ==
    [SUBGRAPH_HEADER_HEIGHT |-> 40,
     SUBGRAPH_PADDING |-> 20,
     SUBGRAPH_CONTENT_TOP_MARGIN |-> 10,
     NODE_SEPARATION_HORIZONTAL |-> 50,
     NODE_SEPARATION_VERTICAL |-> 60,
     CONTAINER_SEPARATION_HORIZONTAL |-> 80,
     CONTAINER_SEPARATION_VERTICAL |-> 100,
     NESTED_SUBGRAPH_SEPARATION_HORIZONTAL |-> 40,
     NESTED_SUBGRAPH_SEPARATION_VERTICAL |-> 50,
     META_GRAPH_MARGIN |-> 30,
     NESTED_CONTENT_MARGIN |-> 10,
     MIXED_CONTENT_VERTICAL_SPACING |-> 30,
     MIXED_CONTENT_HORIZONTAL_SPACING |-> 30]

\* the size of a node from its label and kind, in half pixels
calculateNodeSize(node) ==
    LET label == node.label
        \* the line breaks, with 0 for the start of the text
        breaks == {0} \cup {k \in DOMAIN label : label[k] = "\n"}
        lineEnd(p) == MinOf({k \in (p + 1)..(Len(label) + 1) :
                               k = Len(label) + 1 \/ label[k] = "\n"})
        maxLineWidth == MaxOf({(lineEnd(p) - p - 1) * 8 : p \in breaks})
        baseWidth == maxLineWidth + 30
        baseHeight == Cardinality(breaks) * 18 + 20
        width == MaxOf({80, baseWidth + 30})
        height == MaxOf({40, baseHeight + 20})
        \* Math.ceil(v * 1.05)
        ceil105(v) == (21 * v + 19) \div 20
        size == MaxOf({width, height}) + 10
    IN  IF node.kind = "diamond"
        THEN [width |-> Px(MaxOf({90, ceil105(width)})),
              height |-> Px(MaxOf({90, ceil105(height)}))]
        ELSE IF node.kind = "circle"
        THEN [width |-> Px(size), height |-> Px(size)]
        ELSE [width |-> Px(width), height |-> Px(height)]

\* one run of the for loop inside the while loop of
\* getSubgraphsInHierarchicalOrder, from key k on
RECURSIVE HierarchyPass(_, _, _)
HierarchyPass(subgraphs, k, result) ==
    IF k > Len(subgraphs) THEN result
    ELSE LET s == subgraphs[k]
         IN  HierarchyPass(subgraphs, k + 1,
                 IF /\ s.id \notin Range(result)
                    /\ s.parent # Undefined
                    /\ s.parent \in Range(result)
                 THEN Append(result, s.id) ELSE result)

\* the while loop: until every subgraph is placed or a run places none
RECURSIVE HierarchyLoop(_, _, _)
HierarchyLoop(subgraphs, result, lastCount) ==
    IF Len(result) < Len(subgraphs) /\ lastCount # Len(result)
    THEN HierarchyLoop(subgraphs, HierarchyPass(subgraphs, 1, result), Len(result))
    ELSE result

\* the subgraph ids as Object.keys returns them, not reordered
getSubgraphsInHierarchicalOrder_KeyOrder(graph) == keysOf(graph.subgraphs)

\* subgraph ids, parents before children; what the loop leaves out comes last
getSubgraphsInHierarchicalOrder(graph) ==
    LET keys == keysOf(graph.subgraphs)
        isRoot(id) == getOwn(graph.subgraphs, id).parent = Undefined
        placed == HierarchyLoop(graph.subgraphs, SelectSeq(keys, isRoot), 0)
        isLeft(id) == id \notin Range(placed)
    IN  placed \o SelectSeq(keys, isLeft)

\* graph.subgraphs[id]?.parent
subgraphParent(graph, id) ==
    IF isSubgraphRecord(graph.subgraphs, graph.proto, id)
    THEN subgraphMapGet(graph.subgraphs, graph.proto, id).parent
    ELSE Undefined

\* dagre is a library outside the sources.  The model places the vertices in
\* one of two ways dagre places them: "rank", all in one rank, side by side
\* across the rank direction; "chain", one per rank, along the rank
\* direction (backwards for BT and RL).  Centers are returned, as dagre does.
DagreStyles == {"rank", "chain"}

dagreLayout(nodes, config, style) ==
    LET n == Len(nodes)
        vertical == config.rankdir \in {"TB", "BT"}
        reversed == config.rankdir \in {"BT", "RL"}
        alongX == (style = "rank") <=> vertical
        sep == IF style = "rank" THEN config.nodesep ELSE config.ranksep
        place(k) == IF style = "chain" /\ reversed THEN n + 1 - k ELSE k
        along(k) == IF alongX THEN nodes[k].width ELSE nodes[k].height
        across(k) == IF alongX THEN nodes[k].height ELSE nodes[k].width
        before(k) == SumSeq([p \in 1..(place(k) - 1) |-> along(place(p)) + sep])
        marginAlong == IF alongX THEN config.marginx ELSE config.marginy
        marginAcross == IF alongX THEN config.marginy ELSE config.marginx
        a(k) == marginAlong + before(k) + Half(along(k))
        c(k) == marginAcross + Half(MaxOf({across(j) : j \in 1..n}))
    IN  [k \in 1..n |-> [id |-> nodes[k].id,
                         x |-> IF alongX THEN a(k) ELSE c(k),
                         y |-> IF alongX THEN c(k) ELSE a(k)]]

\* the body of the loop of layoutSubgraphs for one subgraph
layoutOneSubgraph(graph, direction, style, subgraphId) ==
    LET S == LAYOUT_SPACING
        subgraph == getOwn(graph.subgraphs, subgraphId)
        isNode(id) == hasOwn(graph.nodes, id)
        subgraphNodes == SelectSeq(subgraph.children, isNode)
        marginTop == Px(S.SUBGRAPH_PADDING + S.SUBGRAPH_HEADER_HEIGHT
                        + S.SUBGRAPH_CONTENT_TOP_MARGIN)
        config == [rankdir |-> IF subgraph.direction # Undefined
                               THEN subgraph.direction ELSE direction,
                   nodesep |-> Px(S.NODE_SEPARATION_HORIZONTAL),
                   ranksep |-> Px(S.NODE_SEPARATION_VERTICAL),
                   marginx |-> Px(S.SUBGRAPH_PADDING),
                   marginy |-> marginTop]
        empty == Len(subgraphNodes) = 0
        \* after dagre.layout(g): the bounds, the offsets and the layout
        laidOut(sized, g) ==
            LET minX == IF empty THEN 0
                        ELSE MinOf({g[k].x - Half(sized[k].width) : k \in DOMAIN g})
                maxX == IF empty THEN Px(200)
                        ELSE MaxOf({g[k].x + Half(sized[k].width) : k \in DOMAIN g})
                minY == IF empty THEN 0
                        ELSE MinOf({g[k].y - Half(sized[k].height) : k \in DOMAIN g})
                maxY == IF empty THEN Px(100)
                        ELSE MaxOf({g[k].y + Half(sized[k].height) : k \in DOMAIN g})
                offsetX == Px(S.SUBGRAPH_PADDING) - minX
                offsetY == marginTop - minY
            IN  [id |-> subgraphId,
                 nodes |-> [k \in DOMAIN g |->
                              [id |-> g[k].id, x |-> g[k].x + offsetX, y |-> g[k].y + offsetY,
                               width |-> sized[k].width, height |-> sized[k].height]],
                 width |-> maxX - minX + Px(S.SUBGRAPH_PADDING * 2) + Px(4),
                 height |-> maxY - minY + Px(S.SUBGRAPH_PADDING * 2 + S.SUBGRAPH_HEADER_HEIGHT
                                             + S.SUBGRAPH_CONTENT_TOP_MARGIN) + Px(4),
                 parentId |-> subgraph.parent]
        withNodes(sized) == laidOut(sized, dagreLayout(sized, config, style))
    IN  withNodes([k \in DOMAIN subgraphNodes |->
                     [id |-> subgraphNodes[k]]
                     @@ calculateNodeSize(getOwn(graph.nodes, subgraphNodes[k]))])

\* the loop over the child subgraphs in recalculateParentSizes: the content
\* extent [right, bottom] after the children from index k on
RECURSIVE childExtent(_, _, _, _, _)
childExtent(layouts, childSubgraphs, k, extent, isHorizontal) ==
    IF k > Len(childSubgraphs) THEN extent
    ELSE LET S == LAYOUT_SPACING
             childLayout == getOwn(layouts, childSubgraphs[k])
             top == Px(S.SUBGRAPH_HEADER_HEIGHT + S.SUBGRAPH_CONTENT_TOP_MARGIN
                       + S.SUBGRAPH_PADDING)
             estimatedChildX ==
                 IF isHorizontal
                 THEN MaxOf({Px(S.SUBGRAPH_PADDING) + Half(childLayout.width),
                             extent.right + Px(S.MIXED_CONTENT_HORIZONTAL_SPACING)
                                + Half(childLayout.width)})
                 ELSE Px(S.SUBGRAPH_PADDING) + Half(childLayout.width)
             estimatedChildY ==
                 IF isHorizontal
                 THEN MaxOf({top + Half(childLayout.height), Half(childLayout.height)})
                 ELSE MaxOf({top + Half(childLayout.height),
                             extent.bottom + Px(S.MIXED_CONTENT_VERTICAL_SPACING)
                                + Half(childLayout.height)})
         IN  childExtent(layouts, childSubgraphs, k + 1,
                 [right |-> MaxOf({extent.right, estimatedChildX + Half(childLayout.width)}),
                  bottom |-> MaxOf({extent.bottom, estimatedChildY + Half(childLayout.height)})],
                 isHorizontal)

\* recalculateParentSizes without the least width and height of a parent
RECURSIVE recalculateParentSizes_NoMinimum(_, _, _, _)
recalculateParentSizes_NoMinimum(layouts, graph, direction, i) ==
    IF i < 1 THEN layouts
    ELSE LET S == LAYOUT_SPACING
             layout == layouts[i]
             isChild(id) == subgraphParent(graph, id) = layout.id
             childSubgraphs == SelectSeq(keysOf(layouts), isChild)
             isHorizontal == direction \in {"LR", "RL"}
             nodesExtent ==
                 [right |-> MaxOf({0} \cup {layout.nodes[k].x + Half(layout.nodes[k].width)
                                              : k \in DOMAIN layout.nodes}),
                  bottom |-> MaxOf({0} \cup {layout.nodes[k].y + Half(layout.nodes[k].height)
                                               : k \in DOMAIN layout.nodes})]
             extent == childExtent(layouts, childSubgraphs, 1, nodesExtent, isHorizontal)
             minRequiredWidth == extent.right + Px(S.SUBGRAPH_PADDING * 3)
             minRequiredHeight == extent.bottom + Px(S.SUBGRAPH_PADDING * 3)
             grown == [layout EXCEPT
                         !.width = MaxOf({layout.width, minRequiredWidth}),
                         !.height = MaxOf({layout.height, minRequiredHeight})]
         IN  recalculateParentSizes_NoMinimum(
                 IF childSubgraphs = <<>> THEN layouts ELSE [layouts EXCEPT ![i] = grown],
                 graph, direction, i - 1)

\* recalculateParentSizes from index i down (children before parents); the
\* layouts are in hierarchical order, so index i is orderedSubgraphs[i]
RECURSIVE recalculateParentSizes(_, _, _, _)
recalculateParentSizes(layouts, graph, direction, i) ==
    IF i < 1 THEN layouts
    ELSE LET S == LAYOUT_SPACING
             layout == layouts[i]
             isChild(id) == subgraphParent(graph, id) = layout.id
             childSubgraphs == SelectSeq(keysOf(layouts), isChild)
             isHorizontal == direction \in {"LR", "RL"}
             nodesExtent ==
                 [right |-> MaxOf({0} \cup {layout.nodes[k].x + Half(layout.nodes[k].width)
                                              : k \in DOMAIN layout.nodes}),
                  bottom |-> MaxOf({0} \cup {layout.nodes[k].y + Half(layout.nodes[k].height)
                                               : k \in DOMAIN layout.nodes})]
             extent == childExtent(layouts, childSubgraphs, 1, nodesExtent, isHorizontal)
             minRequiredWidth == extent.right + Px(S.SUBGRAPH_PADDING * 3)
             minRequiredHeight == extent.bottom + Px(S.SUBGRAPH_PADDING * 3)
             grown == [layout EXCEPT
                         !.width = MaxOf({layout.width, minRequiredWidth, Px(300)}),
                         !.height = MaxOf({layout.height, minRequiredHeight, Px(200)})]
         IN  recalculateParentSizes(
                 IF childSubgraphs = <<>> THEN layouts ELSE [layouts EXCEPT ![i] = grown],
                 graph, direction, i - 1)

\* phase 1 and 1b: a layout for every subgraph, in hierarchical order
layoutSubgraphs(graph, direction, style) ==
    LET resized(layouts) == recalculateParentSizes(layouts, graph, direction, Len(layouts))
        inOrder(orderedSubgraphs) ==
            resized([k \in DOMAIN orderedSubgraphs |->
                       layoutOneSubgraph(graph, direction, style, orderedSubgraphs[k])])
    IN  inOrder(getSubgraphsInHierarchicalOrder(graph))

\* layoutChildrenWithinParent: the child subgraphs of a positioned parent get
\* absolute positions; [progressed, positions]
layoutChildrenWithinParent(parentId, graph, layouts, positions, direction, style) ==
    LET S == LAYOUT_SPACING
        parentPos == getOwn(positions, parentId)
        parentLayout == getOwn(layouts, parentId)
        isChild(id) == subgraphParent(graph, id) = parentId
        isHorizontal == direction \in {"LR", "RL"}
        config == [rankdir |-> direction,
                   nodesep |-> Px(S.NESTED_SUBGRAPH_SEPARATION_HORIZONTAL),
                   ranksep |-> Px(S.NESTED_SUBGRAPH_SEPARATION_VERTICAL),
                   marginx |-> Px(S.NESTED_CONTENT_MARGIN),
                   marginy |-> Px(S.NESTED_CONTENT_MARGIN)]
        maxNodeBottom ==
            MaxOf({0} \cup {parentLayout.nodes[k].y + Half(parentLayout.nodes[k].height)
                              : k \in DOMAIN parentLayout.nodes})
        parentNodesMaxRight ==
            MaxOf({0} \cup {parentLayout.nodes[k].x + Half(parentLayout.nodes[k].width)
                              : k \in DOMAIN parentLayout.nodes})
        originY == parentPos.y + Px(S.SUBGRAPH_HEADER_HEIGHT + S.SUBGRAPH_CONTENT_TOP_MARGIN
                                     + S.SUBGRAPH_PADDING)
        availableWidth == parentLayout.width - Px(S.SUBGRAPH_PADDING * 2)
        \* the origin of the child content inside the parent
        origin(contentWidth) ==
            [x |-> (IF isHorizontal /\ parentNodesMaxRight > 0
                    THEN MaxOf({parentPos.x + Px(S.SUBGRAPH_PADDING),
                                parentPos.x + parentNodesMaxRight
                                   + Px(S.MIXED_CONTENT_HORIZONTAL_SPACING)})
                    ELSE parentPos.x + Px(S.SUBGRAPH_PADDING))
                   + (IF isHorizontal
                      THEN MaxOf({0, Half(availableWidth - contentWidth)}) ELSE 0),
             y |-> IF ~isHorizontal /\ maxNodeBottom > 0
                   THEN MaxOf({originY,
                               parentPos.y + maxNodeBottom
                                  + Px(S.MIXED_CONTENT_VERTICAL_SPACING)})
                   ELSE originY]
        \* the child boxes [id, left, top, right] from the child graph of dagre
        boxes(children, cg) ==
            [k \in DOMAIN children |->
               [id |-> children[k].id,
                left |-> cg[k].x - Half(children[k].width),
                top |-> cg[k].y - Half(children[k].height),
                right |-> cg[k].x + Half(children[k].width)]]
        placedAt(box, minLeft, minTop, contentOrigin) ==
            [k \in DOMAIN box |->
               [id |-> box[k].id,
                x |-> contentOrigin.x + (box[k].left - minLeft),
                y |-> contentOrigin.y + (box[k].top - minTop)]]
        placedBoxes(box, minLeft, maxRight) ==
            placedAt(box, minLeft, MinOf({box[k].top : k \in DOMAIN box}),
                     origin(maxRight - minLeft))
        \* positions.set(childId, ...) for every child
        merged(placed) ==
            LET isNew(p) == ~hasOwn(positions, p.id)
            IN  [k \in DOMAIN positions |->
                   IF hasOwn(placed, positions[k].id)
                   THEN getOwn(placed, positions[k].id) ELSE positions[k]]
                \o SelectSeq(placed, isNew)
        boxed(box) ==
            merged(placedBoxes(box, MinOf({box[k].left : k \in DOMAIN box}),
                               MaxOf({box[k].right : k \in DOMAIN box})))
        sizedChildren(children) == boxed(boxes(children, dagreLayout(children, config, style)))
        withChildren(childIds) ==
            IF childIds = <<>>
            THEN [progressed |-> FALSE, positions |-> positions]
            ELSE [progressed |-> TRUE,
                  positions |->
                      sizedChildren([k \in DOMAIN childIds |->
                                       [id |-> childIds[k],
                                        width |-> getOwn(layouts, childIds[k]).width,
                                        height |-> getOwn(layouts, childIds[k]).height]])]
    IN  withChildren(SelectSeq(keysOf(layouts), isChild))

\* one run of the for loop of positionNestedSubgraphs, from layout k on;
\* st is [positions, processedParents, madeProgress]
RECURSIVE nestedPass(_, _, _, _, _, _)
nestedPass(graph, layouts, k, st, direction, style) ==
    IF k > Len(layouts) THEN st
    ELSE LET subgraphId == layouts[k].id
             after(r) ==
                 IF /\ hasOwn(st.positions, subgraphId)
                    /\ subgraphId \notin st.processedParents
                    /\ r.progressed
                 THEN [positions |-> r.positions,
                       processedParents |-> st.processedParents \cup {subgraphId},
                       madeProgress |-> TRUE]
                 ELSE st
         IN  nestedPass(graph, layouts, k + 1,
                 after(layoutChildrenWithinParent(subgraphId, graph, layouts, st.positions,
                                                  direction, style)),
                 direction, style)

\* the while loop of positionNestedSubgraphs: at most 100 runs, until a run
\* positions nothing
RECURSIVE positionNestedSubgraphs(_, _, _, _, _, _, _)
positionNestedSubgraphs(graph, layouts, positions, processedParents, iterations, direction, style) ==
    IF iterations < 100
    THEN LET after(st) ==
                 IF st.madeProgress
                 THEN positionNestedSubgraphs(graph, layouts, st.positions,
                                              st.processedParents, iterations + 1,
                                              direction, style)
                 ELSE st.positions
         IN  after(nestedPass(graph, layouts, 1,
                       [positions |-> positions, processedParents |-> processedParents,
                        madeProgress |-> FALSE], direction, style))
    ELSE positions

\* the loop of calculateConnectionWeights from edge k on.  graph.nodes[id]
\* is truthy for an own key and for a property of Object.prototype, which
\* has neither a parent nor an id: its container is undefined.
RECURSIVE connectionWeightsFrom(_, _, _)
connectionWeightsFrom(graph, k, weights) ==
    IF k > Len(graph.edges) THEN weights
    ELSE LET edge == graph.edges[k]
             containerOf(id) ==
                 IF ~hasOwn(graph.nodes, id) THEN Undefined
                 ELSE IF getOwn(graph.nodes, id).parent # Undefined
                      THEN getOwn(graph.nodes, id).parent
                      ELSE getOwn(graph.nodes, id).id
             sourceContainer == containerOf(edge.from)
             targetContainer == containerOf(edge.to)
             sourceWeights ==
                 IF hasOwn(weights, sourceContainer)
                 THEN getOwn(weights, sourceContainer).targets
                 ELSE <<>>
             currentWeight ==
                 IF hasOwn(sourceWeights, targetContainer)
                 THEN getOwn(sourceWeights, targetContainer).weight
                 ELSE 0
         IN  connectionWeightsFrom(graph, k + 1,
                 IF \/ ~nodeMapHas(graph.nodes, edge.from)
                    \/ ~nodeMapHas(graph.nodes, edge.to)
                    \/ sourceContainer = targetContainer
                 THEN weights
                 ELSE setOwn(weights, sourceContainer,
                             [id |-> sourceContainer,
                              targets |-> setOwn(sourceWeights, targetContainer,
                                                 [id |-> targetContainer,
                                                  weight |-> currentWeight + 1])]))

\* the map of maps, in insertion order: for every source container its
\* target containers with their weights
calculateConnectionWeights(graph) == connectionWeightsFrom(graph, 1, <<>>)

\* the edges layoutMetaGraph adds to the graph of the top-level subgraphs
\* and the standalone nodes
metaEdges(graph, layouts) ==
    LET weights == calculateConnectionWeights(graph)
        hasNode(id) ==
            \/ \E k \in DOMAIN layouts : layouts[k].id = id /\ layouts[k].parentId = Undefined
            \/ \E k \in DOMAIN graph.nodes : graph.nodes[k].id = id /\ graph.nodes[k].parent = Undefined
        parentIdOf(id) ==
            IF hasOwn(layouts, id) THEN getOwn(layouts, id).parentId ELSE Undefined
        added(sourceId, targetId) ==
            /\ ~(hasOwn(layouts, sourceId) /\ parentIdOf(sourceId) = targetId)
            /\ ~(hasOwn(layouts, targetId) /\ parentIdOf(targetId) = sourceId)
            /\ parentIdOf(sourceId) = Undefined
            /\ parentIdOf(targetId) = Undefined
            /\ hasNode(sourceId) /\ hasNode(targetId)
    IN  UNION { { [v |-> weights[s].id,
                     w |-> weights[s].targets[t].id,
                     weight |-> weights[s].targets[t].weight]
                    : t \in { t \in DOMAIN weights[s].targets :
                                added(weights[s].id, weights[s].targets[t].id) } }
                  : s \in DOMAIN weights }

\* phase 2: positions of the top-level subgraphs and the standalone nodes
\* from one dagre graph, then the nested subgraphs.  The meta edges the code
\* adds to that graph reach the result through dagre only.
layoutMetaGraph(graph, layouts, direction, style) ==
    LET S == LAYOUT_SPACING
        isTop(layout) == layout.parentId = Undefined
        isStandalone(n) == n.parent = Undefined
        config == [rankdir |-> direction,
                   nodesep |-> Px(S.CONTAINER_SEPARATION_HORIZONTAL),
                   ranksep |-> Px(S.CONTAINER_SEPARATION_VERTICAL),
                   marginx |-> Px(S.META_GRAPH_MARGIN),
                   marginy |-> Px(S.META_GRAPH_MARGIN)]
        \* the top-left corners from the centers dagre returns
        corners(vertices, g) ==
            [k \in DOMAIN g |-> [id |-> g[k].id,
                                 x |-> g[k].x - Half(vertices[k].width),
                                 y |-> g[k].y - Half(vertices[k].height)]]
        split(topLeft, topCount) ==
            [subgraphPositions |->
                 positionNestedSubgraphs(graph, layouts, SubSeq(topLeft, 1, topCount),
                                         {}, 0, direction, style),
             standalonePositions |-> SubSeq(topLeft, topCount + 1, Len(topLeft))]
        placed(vertices, topCount) ==
            split(corners(vertices, dagreLayout(vertices, config, style)), topCount)
        metaGraph(topLevel, standaloneNodes) ==
            placed([k \in DOMAIN topLevel |->
                      [id |-> topLevel[k].id, width |-> topLevel[k].width,
                       height |-> topLevel[k].height]]
                   \o [k \in DOMAIN standaloneNodes |->
                         [id |-> standaloneNodes[k].id]
                         @@ calculateNodeSize(standaloneNodes[k])],
                   Len(topLevel))
    IN  metaGraph(SelectSeq(layouts, isTop), SelectSeq(graph.nodes, isStandalone))

\* An absent prior state: every lookup in it finds nothing
NoState == [nodes |-> <<>>, edges |-> <<>>, subgraphs |-> <<>>, viewport |-> Undefined]

\* a node visual whose top-left is the centre minus the whole size
UnlockedNodeVisual_WholeSize(node, layouts, standalonePositions) ==
    LET inLayout == /\ node.parent # Undefined
                    /\ hasOwn(layouts, node.parent)
                    /\ hasOwn(getOwn(layouts, node.parent).nodes, node.id)
        nodeLayout == getOwn(getOwn(layouts, node.parent).nodes, node.id)
        standalonePos == getOwn(standalonePositions, node.id)
    IN  IF node.parent # Undefined
        THEN IF inLayout
             THEN [id |-> node.id,
                   position |-> [x |-> nodeLayout.x - nodeLayout.width,
                                 y |-> nodeLayout.y - nodeLayout.height],
                   size |-> <<[width |-> nodeLayout.width, height |-> nodeLayout.height]>>,
                   locked |-> FALSE]
             ELSE [id |-> node.id, position |-> [x |-> 0, y |-> 0], size |-> <<>>,
                   locked |-> FALSE]
        ELSE [id |-> node.id,
              position |-> IF hasOwn(standalonePositions, node.id)
                           THEN [x |-> standalonePos.x, y |-> standalonePos.y]
                           ELSE [x |-> 0, y |-> 0],
              size |-> <<calculateNodeSize(node)>>,
              locked |-> FALSE]

\* a node visual ignoring locks and prior
UnlockedNodeVisual(node, layouts, standalonePositions) ==
    LET inLayout == /\ node.parent # Undefined
                    /\ hasOwn(layouts, node.parent)
                    /\ hasOwn(getOwn(layouts, node.parent).nodes, node.id)
        nodeLayout == getOwn(getOwn(layouts, node.parent).nodes, node.id)
        standalonePos == getOwn(standalonePositions, node.id)
    IN  IF node.parent # Undefined
        THEN IF inLayout
             THEN [id |-> node.id,
                   position |-> [x |-> nodeLayout.x - Half(nodeLayout.width),
                                 y |-> nodeLayout.y - Half(nodeLayout.height)],
                   size |-> <<[width |-> nodeLayout.width, height |-> nodeLayout.height]>>,
                   locked |-> FALSE]
             ELSE [id |-> node.id, position |-> [x |-> 0, y |-> 0], size |-> <<>>,
                   locked |-> FALSE]
        ELSE [id |-> node.id,
              position |-> IF hasOwn(standalonePositions, node.id)
                           THEN [x |-> standalonePos.x, y |-> standalonePos.y]
                           ELSE [x |-> 0, y |-> 0],
              size |-> <<calculateNodeSize(node)>>,
              locked |-> FALSE]

\* a node visual that follows the prior whenever it has the node
nodeVisual_PriorAlways(node, existingState, layouts, standalonePositions) ==
    IF hasOwn(existingState.nodes, node.id)
    THEN getOwn(existingState.nodes, node.id)
    ELSE UnlockedNodeVisual(node, layouts, standalonePositions)

\* the body of the loop over the nodes in autoLayout
nodeVisual(node, existingState, layouts, standalonePositions) ==
    IF hasOwn(existingState.nodes, node.id) /\ getOwn(existingState.nodes, node.id).locked
    THEN getOwn(existingState.nodes, node.id)
    ELSE UnlockedNodeVisual(node, layouts, standalonePositions)

\* a subgraph visual that keeps the canvas position of a nested subgraph
subgraphVisual_Absolute(graph, layout, existingState, subgraphPositions) ==
    LET position == getOwn(subgraphPositions, layout.id)
    IN  IF /\ hasOwn(existingState.subgraphs, layout.id)
           /\ getOwn(existingState.subgraphs, layout.id).locked
        THEN getOwn(existingState.subgraphs, layout.id)
        ELSE [id |-> layout.id,
              position |-> [x |-> position.x, y |-> position.y],
              size |-> [width |-> layout.width, height |-> layout.height],
              locked |-> FALSE]

\* the body of the loop over the subgraph layouts in autoLayout, for a
\* subgraph that has a position
subgraphVisual(graph, layout, existingState, subgraphPositions) ==
    LET position == getOwn(subgraphPositions, layout.id)
        subgraph == getOwn(graph.subgraphs, layout.id)
        relative == subgraph.parent # Undefined /\ hasOwn(subgraphPositions, subgraph.parent)
        parentPos == getOwn(subgraphPositions, subgraph.parent)
    IN  IF /\ hasOwn(existingState.subgraphs, layout.id)
           /\ getOwn(existingState.subgraphs, layout.id).locked
        THEN getOwn(existingState.subgraphs, layout.id)
        ELSE [id |-> layout.id,
              position |-> IF relative
                           THEN [x |-> position.x - parentPos.x, y |-> position.y - parentPos.y]
                           ELSE [x |-> position.x, y |-> position.y],
              size |-> [width |-> layout.width, height |-> layout.height],
              locked |-> FALSE]

\* autoLayout(graph, existingState), with the placement dagre takes
autoLayout(graph, existingState, style) ==
    LET direction == graph.meta.direction
        visuals(subgraphLayouts, subgraphPositions, standalonePositions) ==
            LET hasPosition(layout) == hasOwn(subgraphPositions, layout.id)
                positioned == SelectSeq(subgraphLayouts, hasPosition)
            IN  [nodes |-> [k \in DOMAIN graph.nodes |->
                              nodeVisual(graph.nodes[k], existingState, subgraphLayouts,
                                         standalonePositions)],
                 edges |-> existingState.edges,
                 subgraphs |-> [k \in DOMAIN positioned |->
                                  subgraphVisual(graph, positioned[k], existingState,
                                                 subgraphPositions)],
                 viewport |-> existingState.viewport]
        positioned(subgraphLayouts, meta) ==
            visuals(subgraphLayouts, meta.subgraphPositions, meta.standalonePositions)
        laidOut(subgraphLayouts) ==
            positioned(subgraphLayouts,
                       layoutMetaGraph(graph, subgraphLayouts, direction, style))
    IN  laidOut(layoutSubgraphs(graph, direction, style))

\* ------------------------------------------------------------------------
\* Render adapter (toReactFlow)
\* ------------------------------------------------------------------------

\* `subgraph-${id}` for a parent that is set
parentNodeOf(parent) == IF parent # Undefined THEN "subgraph-" \o parent ELSE Undefined

\* a container record under the bare id of the subgraph
subgraphReactFlowNode_NoPrefix(subgraph, visual) ==
    [id |-> subgraph.id,
     type |-> "group",
     position |-> visual.position,
     label |-> IF subgraph.label # <<>> THEN Str(subgraph.label) ELSE subgraph.id,
     isSubgraph |-> TRUE,
     width |-> visual.size.width,
     height |-> visual.size.height,
     draggable |-> ~visual.locked,
     parentNode |-> parentNodeOf(subgraph.parent),
     extent |-> IF subgraph.parent # Undefined THEN "parent" ELSE Undefined]

\* the record pushed for a regular subgraph (colours left out)
subgraphReactFlowNode(subgraph, visual) ==
    [id |-> "subgraph-" \o subgraph.id,
     type |-> "group",
     position |-> visual.position,
     label |-> IF subgraph.label # <<>> THEN Str(subgraph.label) ELSE subgraph.id,
     isSubgraph |-> TRUE,
     width |-> visual.size.width,
     height |-> visual.size.height,
     draggable |-> ~visual.locked,
     parentNode |-> parentNodeOf(subgraph.parent),
     extent |-> IF subgraph.parent # Undefined THEN "parent" ELSE Undefined]

createReactFlowNode(node, visual, direction) ==
    [id |-> node.id,
     type |-> IF node.kind = "diamond" THEN "diamond" ELSE "custom",
     position |-> visual.position,
     label |-> Str(node.label),
     isSubgraph |-> FALSE,
     width |-> IF visual.size # <<>> THEN visual.size[1].width ELSE Px(150),
     height |-> IF visual.size # <<>> THEN visual.size[1].height ELSE Px(60),
     draggable |-> ~visual.locked,
     parentNode |-> parentNodeOf(node.parent),
     extent |-> IF node.parent # Undefined THEN "parent" ELSE Undefined]

createReactFlowEdge(edge, isHorizontal, graph) ==
    LET isSourceSubgraph == subgraphMapHas(graph.subgraphs, graph.proto, edge.from)
        isTargetSubgraph == subgraphMapHas(graph.subgraphs, graph.proto, edge.to)
    IN  [id |-> edge.id,
         source |-> IF isSourceSubgraph THEN "subgraph-" \o edge.from ELSE edge.from,
         target |-> IF isTargetSubgraph THEN "subgraph-" \o edge.to ELSE edge.to,
         label |-> edge.label,
         type |-> "smoothstep",
         bidirectional |-> edge.kind = "bidirectional",
         sourceHandle |-> IF isHorizontal THEN "right-source" ELSE "bottom-source",
         targetHandle |-> IF isHorizontal THEN "left-target" ELSE "top-target"]

\* toReactFlow for a flowchart graph: subgraph containers in hierarchical
\* order, then nodes, each only when it has a visual; then every edge
toReactFlow(graph, visualState) ==
    LET direction == graph.meta.direction
        orderedSubgraphs == getSubgraphsInHierarchicalOrder(graph)
        hasSubgraphVisual(id) == hasOwn(visualState.subgraphs, id)
        shownSubgraphs == SelectSeq(orderedSubgraphs, hasSubgraphVisual)
        hasNodeVisual(node) == hasOwn(visualState.nodes, node.id)
        shownNodes == SelectSeq(graph.nodes, hasNodeVisual)
    IN  [nodes |->
             [k \in DOMAIN shownSubgraphs |->
                 subgraphReactFlowNode(getOwn(graph.subgraphs, shownSubgraphs[k]),
                                       getOwn(visualState.subgraphs, shownSubgraphs[k]))]
             \o [k \in DOMAIN shownNodes |->
                   createReactFlowNode(shownNodes[k],
                                       getOwn(visualState.nodes, shownNodes[k].id), direction)],
         edges |-> [k \in DOMAIN graph.edges |->
                      createReactFlowEdge(graph.edges[k], direction \in {"LR", "RL"}, graph)]]

\* ------------------------------------------------------------------------
\* Prior visual states handed to convertMermaid
\* ------------------------------------------------------------------------

\* S6: node B (and X) locked at (999, 999); an entry for an id of no graph
PriorLocked ==
    [nodes |-> << [id |-> "B", position |-> [x |-> Px(999), y |-> Px(999)],
                   size |-> <<>>, locked |-> TRUE],
                  [id |-> "X", position |-> [x |-> Px(999), y |-> Px(999)],
                   size |-> <<>>, locked |-> TRUE],
                  [id |-> "Q", position |-> [x |-> Px(1), y |-> Px(1)],
                   size |-> <<>>, locked |-> TRUE] >>,
     edges |-> <<>>,
     subgraphs |-> <<>>,
     viewport |-> Undefined]

\* unlocked and locked entries for nodes and subgraphs, stale edges
PriorMixed ==
    [nodes |-> << [id |-> "X", position |-> [x |-> Px(7), y |-> Px(7)],
                   size |-> <<[width |-> Px(11), height |-> Px(11)]>>, locked |-> FALSE],
                  [id |-> "Z", position |-> [x |-> Px(5), y |-> Px(5)],
                   size |-> <<[width |-> Px(12), height |-> Px(12)]>>, locked |-> TRUE] >>,
     edges |-> << [id |-> "e-X-Y-0"], [id |-> "e-Q-Q-9"] >>,
     subgraphs |-> << [id |-> "a", position |-> [x |-> Px(3), y |-> Px(3)],
                       size |-> [width |-> Px(50), height |-> Px(50)], locked |-> TRUE],
                      [id |-> "b", position |-> [x |-> Px(4), y |-> Px(4)],
                       size |-> [width |-> Px(60), height |-> Px(60)], locked |-> FALSE],
                      [id |-> "gone", position |-> [x |-> Px(2), y |-> Px(2)],
                       size |-> [width |-> Px(70), height |-> Px(70)], locked |-> TRUE] >>,
     viewport |-> Undefined]

ExistingStates == {NoState, PriorLocked, PriorMixed}

\* ------------------------------------------------------------------------
\* Source texts
\* ------------------------------------------------------------------------

\* longest enumerated source text, in lines
MaxLines == 3

\* the lines the enumerated source texts are made of
SourceLines ==
    << <<"s","u","b","g","r","a","p","h"," ","a">>,
       <<"s","u","b","g","r","a","p","h"," ","b">>,
       <<"e","n","d">>,
       <<"X"," ","-","-",">"," ","Y">>,
       <<"Z">>,
       <<"a"," ","-","-",">"," ","X">>,
       <<"c","o","n","s","t","r","u","c","t","o","r"," ","-","-",">"," ","Z">>,
       <<"s","u","b","g","r","a","p","h"," ","_","_","p","r","o","t","o","_","_">> >>

\* S1, the linear flowchart of the specification
SourceS1 ==
    << <<"g","r","a","p","h"," ","T","D">>,
       <<"A","[","S","t","a","r","t","]"," ","-","-",">"," ","B","[","M","i","d","d","l","e","]"," ","-","-",">"," ","C","[","E","n","d","]">> >>

\* S3, the nested subgraphs of the specification
SourceS3 ==
    << <<"g","r","a","p","h"," ","T","B">>,
       <<" ","s","u","b","g","r","a","p","h"," ","o","u","t","e","r">>,
       <<" "," ","s","u","b","g","r","a","p","h"," ","i","n","n","e","r">>,
       <<" "," "," ","X"," ","-","-",">"," ","Y">>,
       <<" "," ","e","n","d">>,
       <<" "," ","Z">>,
       <<" ","e","n","d">> >>

\* longest enumerated source text with shape definitions and titles, in lines
MaxShapeLines == 2

\* the lines with shape definitions, an unclosed bracket and subgraph titles
ShapeLines ==
    << <<"A","[","x">>,
       <<"Y","(","q",")">>,
       <<"Y","[","p","]">>,
       <<"X"," ","-","-",">"," ","Y">>,
       <<"a">>,
       <<"s","u","b","g","r","a","p","h"," ","a">>,
       <<"s","u","b","g","r","a","p","h"," ","a"," ","[","T","]">>,
       <<"s","u","b","g","r","a","p","h"," ","a"," ","\"","T","\"">>,
       <<"s","u","b","g","r","a","p","h"," ","\"","T","\"">> >>

\* a node declared in two subgraph scopes
SourceDuplicate ==
    << <<"s","u","b","g","r","a","p","h"," ","a">>,
       <<"Z">>,
       <<"e","n","d">>,
       <<"s","u","b","g","r","a","p","h"," ","b">>,
       <<"Z">>,
       <<"e","n","d">> >>

\* an unclosed shape bracket ahead of a subgraph block
SourceUnclosed ==
    << <<"A","[","x">>,
       <<"s","u","b","g","r","a","p","h"," ","a">>,
       <<"X"," ","-","-",">"," ","Y">>,
       <<"e","n","d">> >>

\* a subgraph id used as an edge endpoint and as a standalone line
SourceSubgraphIds ==
    << <<"a"," ","-","-",">"," ","X">>,
       <<"a">>,
       <<"s","u","b","g","r","a","p","h"," ","a">>,
       <<"X"," ","-","-",">"," ","a">>,
       <<"e","n","d">> >>

\* a node referenced before its first definition and defined twice
SourceDefinitions ==
    << <<"X"," ","-","-",">"," ","Y">>,
       <<"Y","(","q",")">>,
       <<"Y","[","p","]">>,
       <<"Z">> >>

\* S5, the C4 context diagram of the specification
SourceS5 ==
    << <<"C","4","C","o","n","t","e","x","t">>,
       <<" ","t","i","t","l","e"," ","S","y","s","t","e","m"," ","C","o","n","t","e","x","t">>,
       <<" ","P","e","r","s","o","n","(","u",",","\"","U","s","e","r","\"",")">>,
       <<" ","S","y","s","t","e","m","(","s",",","\"","B","a","n","k","i","n","g","\"",")">>,
       <<" ","R","e","l","(","u",","," ","s",","," ","\"","U","s","e","s","\"",","," ","\"","H","T","T","P","S","\"",")">> >>

\* a subgraph declared again inside a subgraph whose parent is no key of the
\* subgraph map, with a child subgraph of its own
SourceRedeclared ==
    << <<"s","u","b","g","r","a","p","h"," ","a">>,
       <<"e","n","d">>,
       <<"s","u","b","g","r","a","p","h"," ","_","_","p","r","o","t","o","_","_">>,
       <<"s","u","b","g","r","a","p","h"," ","b">>,
       <<"s","u","b","g","r","a","p","h"," ","a">>,
       <<"s","u","b","g","r","a","p","h"," ","c">> >>

\* a subgraph that is its own parent, declared ahead of a top-level subgraph
\* with a child subgraph
SourceCycle ==
    << <<"s","u","b","g","r","a","p","h"," ","a">>,
       <<"s","u","b","g","r","a","p","h"," ","a">>,
       <<"e","n","d">>,
       <<"e","n","d">>,
       <<"s","u","b","g","r","a","p","h"," ","b">>,
       <<"s","u","b","g","r","a","p","h"," ","c">> >>

Scenarios ==
    {SourceS1, SourceS3, SourceS5, SourceDuplicate, SourceUnclosed, SourceSubgraphIds,
     SourceDefinitions, SourceRedeclared, SourceCycle}

\* longest enumerated source text of blank and comment lines, in lines
MaxBlankLines == 2

\* blank lines and %% comment lines
BlankLines ==
    << <<>>,
       <<" "," ">>,
       <<"%","%"," ","X","[","x">>,
       <<" ","%","%"," ","g","r","a","p","h"," ","L","R">> >>

RECURSIVE BlankTextsOfLength(_)
BlankTextsOfLength(n) ==
    IF n = 0 THEN {<<>>}
    ELSE { Append(t, BlankLines[k]) : t \in BlankTextsOfLength(n - 1), k \in DOMAIN BlankLines }

RECURSIVE TextsOfLength(_)
TextsOfLength(n) ==
    IF n = 0 THEN {<<>>}
    ELSE { Append(t, SourceLines[k]) : t \in TextsOfLength(n - 1), k \in DOMAIN SourceLines }

RECURSIVE ShapeTextsOfLength(_)
ShapeTextsOfLength(n) ==
    IF n = 0 THEN {<<>>}
    ELSE { Append(t, ShapeLines[k]) : t \in ShapeTextsOfLength(n - 1), k \in DOMAIN ShapeLines }

SourceTexts ==
    Scenarios \cup UNION { TextsOfLength(n) : n \in 0..MaxLines }
              \cup UNION { ShapeTextsOfLength(n) : n \in 0..MaxShapeLines }
              \cup UNION { BlankTextsOfLength(n) : n \in 0..MaxBlankLines }

\* ------------------------------------------------------------------------
\* State
\* ------------------------------------------------------------------------

VARIABLES
    mermaidCode,      \* the source text, a sequence of lines
    pc,               \* position in the pipeline
    lines,            \* cleanCode.split("\n")
    direction,        \* meta.direction
    nodeDefinitions,  \* the definitions table of the pre-scan
    subgraphStack,
    subgraphMap,      \* own entries of subgraphMap, in insertion order
    subgraphProto,    \* the prototype set through the key __proto__, if any
    nodeMap,
    edgeMap,
    edgeIndex,
    i,                \* loop index of the current pass
    existingState,    \* the prior visual state convertMermaid is given
    dagreStyle,       \* the placement dagre takes in this run
    visualState,      \* the result of autoLayout
    reactFlow,        \* the result of toReactFlow
    flowDiagram       \* the state of the FlowDiagram component

parserVars == <<mermaidCode, lines, direction, nodeDefinitions, subgraphStack,
                subgraphMap, subgraphProto, nodeMap, edgeMap, edgeIndex, i>>

layoutVars == <<existingState, dagreStyle, visualState, reactFlow>>

vars == <<pc, parserVars, layoutVars, flowDiagram>>

\* no FlowDiagram component is mounted
NoFlowDiagram == <<>>

Init ==
    /\ mermaidCode \in SourceTexts
    /\ pc = "start"
    /\ lines = <<>>
    /\ direction = "TB"
    /\ nodeDefinitions = <<>>
    /\ subgraphStack = <<>>
    /\ subgraphMap = <<>>
    /\ subgraphProto = <<>>
    /\ nodeMap = <<>>
    /\ edgeMap = <<>>
    /\ edgeIndex = 0
    /\ i = 0
    /\ existingState = NoState
    /\ dagreStyle = "rank"
    /\ visualState = NoState
    /\ reactFlow = [nodes |-> <<>>, edges |-> <<>>]
    /\ flowDiagram = NoFlowDiagram

\* source lines 38-58: cleanup, multi-line joining, header direction
Clean ==
    /\ pc = "start"
    /\ \E cleaned \in {cleanLines(mermaidCode)} :
           /\ lines' = cleaned
           /\ direction' = headerDirection(cleaned)
    /\ pc' = "scan"
    /\ UNCHANGED <<mermaidCode, nodeDefinitions, subgraphStack, subgraphMap,
                   subgraphProto, nodeMap, edgeMap, edgeIndex, i, layoutVars>>
    /\ UNCHANGED flowDiagram

\* source lines 60-72: the pre-scan for node definitions
PreScan ==
    /\ pc = "scan"
    /\ nodeDefinitions' = PreScanLines(lines, <<>>)
    /\ pc' = "first"
    /\ i' = 0
    /\ UNCHANGED <<mermaidCode, lines, direction, subgraphStack, subgraphMap,
                   subgraphProto, nodeMap, edgeMap, edgeIndex, layoutVars>>
    /\ UNCHANGED flowDiagram

FirstPass ==
    /\ pc = "first"
    /\ i < Len(lines)
    /\ \E r \in {firstPassLine(lines[i + 1], i, subgraphStack, subgraphMap, subgraphProto)} :
           /\ subgraphStack' = r.stack
           /\ subgraphMap' = r.own
           /\ subgraphProto' = r.proto
    /\ i' = i + 1
    /\ UNCHANGED <<mermaidCode, pc, lines, direction, nodeDefinitions, nodeMap,
                   edgeMap, edgeIndex, layoutVars>>
    /\ UNCHANGED flowDiagram

\* source lines 122-126: subgraphStack.length = 0; edgeIndex = 0
ResetStack ==
    /\ pc = "first"
    /\ i = Len(lines)
    /\ subgraphStack' = <<>>
    /\ edgeIndex' = 0
    /\ i' = 0
    /\ pc' = "second"
    /\ UNCHANGED <<mermaidCode, lines, direction, nodeDefinitions, subgraphMap,
                   subgraphProto, nodeMap, edgeMap, layoutVars>>
    /\ UNCHANGED flowDiagram

\* the stack, the three maps and the edge counter of the second loop
ParserState ==
    [stack |-> subgraphStack, own |-> subgraphMap, proto |-> subgraphProto,
     nodes |-> nodeMap, edges |-> edgeMap, edgeIndex |-> edgeIndex]

SecondPass ==
    /\ pc = "second"
    /\ i < Len(lines)
    /\ \E r \in {secondPassLine(lines[i + 1], i, ParserState, nodeDefinitions)} :
           /\ subgraphStack' = r.stack
           /\ subgraphMap' = r.own
           /\ subgraphProto' = r.proto
           /\ nodeMap' = r.nodes
           /\ edgeMap' = r.edges
           /\ edgeIndex' = r.edgeIndex
    /\ i' = i + 1
    /\ UNCHANGED <<mermaidCode, pc, lines, direction, nodeDefinitions, layoutVars>>
    /\ UNCHANGED flowDiagram

\* source lines 218-223: return the graph
ReturnGraph ==
    /\ pc = "second"
    /\ i = Len(lines)
    /\ pc' = "parsed"
    /\ UNCHANGED <<parserVars, layoutVars>>
    /\ UNCHANGED flowDiagram

\* the graph parseMermaidToGraph returned
Graph ==
    [meta |-> [direction |-> direction],
     nodes |-> nodeMap,
     edges |-> edgeMap,
     subgraphs |-> subgraphMap,
     proto |-> subgraphProto]

\* convertMermaid: visualState = autoLayout(graph, existingVisualState), for
\* any prior state the caller hands in and either placement of dagre
AutoLayout ==
    /\ pc = "parsed"
    /\ \E prior \in ExistingStates, style \in DagreStyles :
          /\ existingState' = prior
          /\ dagreStyle' = style
          /\ visualState' = autoLayout(Graph, prior, style)
    /\ pc' = "laid"
    /\ UNCHANGED <<parserVars, reactFlow>>
    /\ UNCHANGED flowDiagram

\* convertMermaid: reactFlow = toReactFlow(graph, visualState)
ToReactFlow ==
    /\ pc = "laid"
    /\ reactFlow' = toReactFlow(Graph, visualState)
    /\ pc' = "done"
    /\ UNCHANGED <<parserVars, existingState, dagreStyle, visualState>>
    /\ UNCHANGED flowDiagram

Next ==
    \/ Clean
    \/ PreScan
    \/ FirstPass
    \/ ResetStack
    \/ SecondPass
    \/ ReturnGraph
    \/ AutoLayout
    \/ ToReactFlow

Spec == Init /\ [][Next]_vars

\* ------------------------------------------------------------------------
\* FlowDiagram, the canvas component (src/features/canvas/FlowDiagram.tsx)
\* ------------------------------------------------------------------------

\* most nodes and most edges on the canvas: palette drops and new connections
\* stop there
MaxCanvasNodes == 3

MaxCanvasEdges == 2

\* longest sequence of user events
MaxUserEvents == 3

\* the nodes and edges props: the records the parent passes in
initialNodes ==
    << [id |-> "A", position |-> [x |-> 0, y |-> 0], label |-> "A", selected |-> FALSE],
       [id |-> "B", position |-> [x |-> 0, y |-> 100], label |-> "B", selected |-> FALSE] >>

initialEdges ==
    << [id |-> "e-A-B-0", source |-> "A", target |-> "B", label |-> "", selected |-> FALSE] >>

\* the state after the first render, for either value of the prop interactive
CanvasInit ==
    /\ pc = "canvas"
    /\ mermaidCode = <<>> /\ lines = <<>> /\ direction = "TB"
    /\ nodeDefinitions = <<>> /\ subgraphStack = <<>>
    /\ subgraphMap = <<>> /\ subgraphProto = <<>>
    /\ nodeMap = <<>> /\ edgeMap = <<>> /\ edgeIndex = 0 /\ i = 0
    /\ existingState = NoState /\ dagreStyle = "rank" /\ visualState = NoState
    /\ reactFlow = [nodes |-> initialNodes, edges |-> initialEdges]
    /\ \E interactive \in BOOLEAN :
           flowDiagram = [interactive |-> interactive,
                          nodes |-> initialNodes,
                          edges |-> initialEdges,
                          selectedNode |-> Undefined,
                          selectedNodes |-> <<>>,
                          selectedEdges |-> <<>>,
                          showNodeEditor |-> FALSE,
                          edgeLabelEditor |-> [open |-> FALSE, edgeId |-> Undefined, text |-> ""],
                          onNodesChangeCalled |-> FALSE,
                          onEdgesChangeCalled |-> FALSE,
                          events |-> 0]

\* a user event: the handler leaves the component in the state next
UserEvent(next) ==
    /\ flowDiagram.events < MaxUserEvents
    /\ flowDiagram' = [next EXCEPT !.events = @ + 1]
    /\ UNCHANGED <<pc, parserVars, layoutVars>>

\* onNodesChange, handed to React Flow when interactive: React Flow reports a
\* drag of a draggable node as a position change and a click on a selectable
\* node as a select change
onNodesChange ==
    /\ flowDiagram.interactive
    /\ \E n \in DOMAIN flowDiagram.nodes :
           \/ \E position \in {[x |-> 200, y |-> 100]} :
                  UserEvent([flowDiagram EXCEPT !.nodes[n].position = position])
           \/ LET updated == [k \in DOMAIN flowDiagram.nodes |->
                                 [flowDiagram.nodes[k] EXCEPT !.selected = (k = n)]]
              IN  UserEvent([flowDiagram EXCEPT
                                      !.nodes = updated,
                                      !.selectedNodes = SelectSeq(updated, LAMBDA r : r.selected)])

\* onNodeDragStopLocal, handed to React Flow when interactive
onNodeDragStopLocal ==
    /\ flowDiagram.interactive
    /\ UserEvent([flowDiagram EXCEPT !.onNodesChangeCalled = TRUE,
                                          !.onEdgesChangeCalled = TRUE])

\* addEdge of React Flow: no second edge between the same two nodes
addEdge(connection, eds) ==
    IF \E k \in DOMAIN eds : eds[k].source = connection.source /\ eds[k].target = connection.target
    THEN eds
    ELSE Append(eds, [id |-> "reactflow__edge-" \o connection.source \o "-" \o connection.target,
                      source |-> connection.source,
                      target |-> connection.target,
                      label |-> "",
                      selected |-> FALSE])

\* onConnect, handed to React Flow when interactive
onConnect ==
    /\ flowDiagram.interactive
    /\ Len(flowDiagram.edges) < MaxCanvasEdges
    /\ \E s, t \in DOMAIN flowDiagram.nodes :
           UserEvent([flowDiagram EXCEPT
                               !.edges = addEdge([source |-> flowDiagram.nodes[s].id,
                                                  target |-> flowDiagram.nodes[t].id], @)])

\* onEdgeClick, handed to React Flow whatever interactive is
onEdgeClick ==
    /\ \E e \in DOMAIN flowDiagram.edges :
           LET updated == [k \in DOMAIN flowDiagram.edges |->
                              [flowDiagram.edges[k] EXCEPT !.selected = (k = e)]]
           IN  UserEvent([flowDiagram EXCEPT
                                   !.edges = updated,
                                   !.selectedEdges = SelectSeq(updated, LAMBDA r : r.selected)])

\* onNodeDoubleClick, handed to React Flow whatever interactive is: opens the
\* node editor
onNodeDoubleClick ==
    /\ \E n \in DOMAIN flowDiagram.nodes :
           UserEvent([flowDiagram EXCEPT !.selectedNode = flowDiagram.nodes[n].id,
                                              !.showNodeEditor = TRUE])

\* handleNodeUpdate, the onUpdate of the open node editor
handleNodeUpdate ==
    /\ flowDiagram.showNodeEditor
    /\ \E label \in {"Edited"} :
           UserEvent([flowDiagram EXCEPT
                               !.nodes = [k \in DOMAIN @ |->
                                             IF @[k].id = flowDiagram.selectedNode
                                             THEN [@[k] EXCEPT !.label = label]
                                             ELSE @[k]],
                               !.onNodesChangeCalled = TRUE])

\* the onClose of the node editor
onClose ==
    /\ flowDiagram.showNodeEditor
    /\ UserEvent([flowDiagram EXCEPT !.showNodeEditor = FALSE, !.selectedNode = Undefined])

\* onEdgeDoubleClick, handed to React Flow whatever interactive is: opens the
\* edge label editor
onEdgeDoubleClick ==
    /\ \E e \in DOMAIN flowDiagram.edges :
           UserEvent([flowDiagram EXCEPT
                               !.edgeLabelEditor = [open |-> TRUE,
                                                    edgeId |-> flowDiagram.edges[e].id,
                                                    text |-> flowDiagram.edges[e].label]])

\* saveEdgeLabel, the onSave of the open edge label editor, with the text as
\* opened or as typed
saveEdgeLabel ==
    /\ flowDiagram.edgeLabelEditor.open
    /\ \E text \in {flowDiagram.edgeLabelEditor.text, "Edited"} :
           UserEvent([flowDiagram EXCEPT
                               !.edges = [k \in DOMAIN @ |->
                                             IF @[k].id = flowDiagram.edgeLabelEditor.edgeId
                                             THEN [@[k] EXCEPT !.label = text]
                                             ELSE @[k]],
                               !.onEdgesChangeCalled = TRUE,
                               !.edgeLabelEditor = [open |-> FALSE, edgeId |-> Undefined, text |-> ""]])

cancelEdgeLabelEdit ==
    /\ flowDiagram.edgeLabelEditor.open
    /\ UserEvent([flowDiagram EXCEPT
                           !.edgeLabelEditor = [open |-> FALSE, edgeId |-> Undefined, text |-> ""]])

\* onEdgeUpdate, handed to React Flow whatever interactive is, with
\* edgesUpdatable true: an end of an edge is dragged to another node
onEdgeUpdate ==
    /\ \E e \in DOMAIN flowDiagram.edges, s, t \in DOMAIN flowDiagram.nodes :
           UserEvent([flowDiagram EXCEPT
                               !.edges[e].source = flowDiagram.nodes[s].id,
                               !.edges[e].target = flowDiagram.nodes[t].id,
                               !.onEdgesChangeCalled = TRUE])

\* onDrop, handed to React Flow whatever interactive is: a palette entry is
\* dropped on the canvas; Date.now() is the number of nodes so far
onDrop ==
    /\ Len(flowDiagram.nodes) < MaxCanvasNodes
    /\ \E type \in {"node", "subgraph", "diamond"}, position \in {[x |-> 200, y |-> 100]} :
           LET id == type \o "-" \o ToString(Len(flowDiagram.nodes))
               newNode == [id |-> id,
                           position |-> position,
                           label |-> CASE type = "node" -> "New Node"
                                       [] type = "subgraph" -> "New Subgraph"
                                       [] OTHER -> "Conditional",
                           selected |-> FALSE]
           IN  UserEvent([flowDiagram EXCEPT !.nodes = Append(@, newNode),
                                                  !.onNodesChangeCalled = TRUE])

CanvasNext ==
    \/ onNodesChange
    \/ onNodeDragStopLocal
    \/ onConnect
    \/ onEdgeClick
    \/ onNodeDoubleClick
    \/ handleNodeUpdate
    \/ onClose
    \/ onEdgeDoubleClick
    \/ saveEdgeLabel
    \/ cancelEdgeLabelEdit
    \/ onEdgeUpdate
    \/ onDrop

CanvasSpec == CanvasInit /\ [][CanvasNext]_vars

\* ------------------------------------------------------------------------
\* The invariants of the semantic graph, on the maps of the parser
\* ------------------------------------------------------------------------

NodeKeys == Range(keysOf(nodeMap))

SubgraphKeys == Range(keysOf(subgraphMap))

\* every subgraph object the parser holds: the own entries of the map and
\* the object behind the key __proto__
SubgraphObjects == Range(subgraphMap) \cup Range(subgraphProto)

\* I1: every from/to of an edge is a key of nodes or a key of subgraphs
I1 == \A k \in DOMAIN edgeMap :
         /\ edgeMap[k].from \in NodeKeys \cup SubgraphKeys
         /\ edgeMap[k].to \in NodeKeys \cup SubgraphKeys

\* I2: every parent that is set is a key of subgraphs
I2 == /\ \A k \in DOMAIN nodeMap :
            nodeMap[k].parent # Undefined => nodeMap[k].parent \in SubgraphKeys
      /\ \A k \in DOMAIN subgraphMap :
            subgraphMap[k].parent # Undefined => subgraphMap[k].parent \in SubgraphKeys

\* the subgraph ids reached from id s by n or fewer parent links (at least one)
RECURSIVE AncestorsWithin(_, _)
AncestorsWithin(s, n) ==
    IF n = 0 THEN {}
    ELSE LET step == { o.parent : o \in { o \in SubgraphObjects : o.id = s /\ o.parent # Undefined } }
         IN  step \cup UNION { AncestorsWithin(t, n - 1) : t \in step }

\* I3: the parent relation over subgraphs is acyclic
I3 == \A o \in SubgraphObjects : o.id \notin AncestorsWithin(o.id, Cardinality(SubgraphObjects))

\* I4: children[k] of subgraph S is a key of nodes and that node's parent is S
I4 == \A o \in SubgraphObjects : \A k \in DOMAIN o.children :
         /\ o.children[k] \in NodeKeys
         /\ getOwn(nodeMap, o.children[k]).parent = o.id

\* I5: a node is a child of at most one subgraph, once
I5 == \A k \in DOMAIN nodeMap :
         Cardinality({ c \in { <<o, j>> : o \in SubgraphObjects, j \in 1..Len(nodeMap) + 1 } :
                         /\ c[2] \in DOMAIN c[1].children
                         /\ c[1].children[c[2]] = nodeMap[k].id }) <= 1

\* the graph has been returned
Parsed == pc \notin {"start", "scan", "first", "second"}

\* ------------------------------------------------------------------------
\* The lines read on their own, for the properties of the passes
\* ------------------------------------------------------------------------

\* the subgraph id that line n (from 1) declares, or Undefined
DeclaredOn(n) ==
    LET line == Trim(lines[n])
        info == parseSubgraphLine(line, n - 1)
    IN  IF StartsWith(line, SubgraphKeyword, 0) /\ info.ok THEN info.id ELSE Undefined

IsEnd(n) == Trim(lines[n]) = EndKeyword

\* the subgraphs still open after the first n lines, outermost first
RECURSIVE OpenAfter(_)
OpenAfter(n) ==
    IF n = 0 THEN <<>>
    ELSE LET before == OpenAfter(n - 1)
         IN  IF DeclaredOn(n) # Undefined THEN Append(before, DeclaredOn(n))
             ELSE IF IsEnd(n) /\ before # <<>> THEN SubSeq(before, 1, Len(before) - 1)
             ELSE before

Innermost(open) == IF open = <<>> THEN Undefined ELSE open[Len(open)]

\* line n is read as an edge by the second pass
IsEdgeLine(n) ==
    LET line == Trim(lines[n])
    IN  /\ line # <<>>
        /\ ~StartsWith(line, SubgraphKeyword, 0)
        /\ line # EndKeyword
        /\ ~\E pre \in SkippedPrefixes : StartsWith(line, pre, 0)
        /\ parseEdgeLine(line).ok

\* the edges discovered on the first n lines, in document order
RECURSIVE EdgesDiscovered(_)
EdgesDiscovered(n) ==
    IF n = 0 THEN <<>>
    ELSE IF IsEdgeLine(n) THEN Append(EdgesDiscovered(n - 1), parseEdgeLine(Trim(lines[n])))
    ELSE EdgesDiscovered(n - 1)

\* ------------------------------------------------------------------------
\* Properties of the parser
\* ------------------------------------------------------------------------

\* C1: in the graph parseMermaidToGraph returns, for every source text, every
\* edge's from and to is a key of graph.nodes or a key of graph.subgraphs (I1).
C1_EdgeEndpointsExist == Parsed => I1

\* C2: in the graph parseMermaidToGraph returns, for every source text (also
\* one declaring a subgraph id more than once), following parent links from
\* any subgraph never returns to a subgraph already visited.
C2_SubgraphParentsAcyclic == Parsed => I3

\* C3: every parent that is set on a node or subgraph of the returned graph
\* is a key of graph.subgraphs, and the stack of the second pass holds only
\* ids that are keys of the subgraph map.
C3_ParentsAreSubgraphKeys ==
    /\ Parsed => I2
    /\ pc = "second" => \A k \in DOMAIN subgraphStack : subgraphStack[k] \in SubgraphKeys

\* C4: for every subgraph S, every element of S.children is a key of the
\* nodes and that node's parent is S; it holds while the second pass runs
\* and in the returned graph.
C4_ChildrenBelongToTheirSubgraph == I4

C4_Witness ==
    /\ Parsed
    /\ \E o \in SubgraphObjects : Len(o.children) >= 2
    /\ \E k \in DOMAIN nodeMap : nodeMap[k].parent = Undefined

\* C5: the source text S1 (graph TD, then A[Start] --> B[Middle] --> C[End])
\* parses to exactly the nodes A, B, C, all rect, and exactly the edges
\* e-A-B-0 and e-B-C-1, both directed.
C5_ChainYieldsEveryEdge ==
    (mermaidCode = SourceS1 /\ Parsed) =>
        /\ keysOf(nodeMap) = <<"A", "B", "C">>
        /\ \A k \in DOMAIN nodeMap : nodeMap[k].kind = "rect"
        /\ keysOf(edgeMap) = <<"e-A-B-0", "e-B-C-1">>
        /\ \A k \in DOMAIN edgeMap : edgeMap[k].kind = "directed"
        /\ <<edgeMap[1].from, edgeMap[1].to>> = <<"A", "B">>
        /\ <<edgeMap[2].from, edgeMap[2].to>> = <<"B", "C">>

\* C6: the k-th edge discovered in document order (k from 0, counted across
\* subgraph boundaries) is stored under the key e-{from}-{to}-{k}; the keys
\* are pairwise distinct, there are as many edges as were discovered, and
\* they are kept in document order.
C6_EdgeKeysCountDiscovery ==
    (pc = "second" \/ Parsed) =>
        LET found == EdgesDiscovered(i)
        IN  /\ Len(edgeMap) = Len(found)
            /\ \A k \in DOMAIN edgeMap :
                  /\ k \in DOMAIN found
                  /\ edgeMap[k].from = Str(found[k].sourceId)
                  /\ edgeMap[k].to = Str(found[k].targetId)
                  /\ edgeMap[k].id = Str(<<"e", "-">> \o found[k].sourceId \o <<"-">>
                                            \o found[k].targetId \o <<"-">> \o DecChars(k - 1))
            /\ \A j, k \in DOMAIN edgeMap : j # k => edgeMap[j].id # edgeMap[k].id

C6_Witness ==
    /\ Parsed
    /\ Len(edgeMap) >= 2
    /\ edgeMap[1].from = edgeMap[2].from
    /\ edgeMap[1].to = edgeMap[2].to
    /\ \E k \in DOMAIN nodeMap : nodeMap[k].parent # Undefined

\* the first pass on line i + 1: the stack follows the open subgraphs, a
\* declared subgraph gets the innermost open subgraph as parent, end changes
\* no subgraph
C7_FirstPassStep ==
    (pc = "first" /\ i < Len(lines)) =>
        /\ subgraphStack' = OpenAfter(i + 1)
        /\ DeclaredOn(i + 1) # Undefined =>
              /\ isSubgraphRecord(subgraphMap', subgraphProto', DeclaredOn(i + 1))
              /\ subgraphMapGet(subgraphMap', subgraphProto', DeclaredOn(i + 1)).parent
                    = Innermost(OpenAfter(i))
        /\ IsEnd(i + 1) =>
              /\ subgraphStack' = SubSeq(subgraphStack, 1, Len(subgraphStack) - 1)
              /\ UNCHANGED <<subgraphMap, subgraphProto>>

\* the second pass on line i + 1: every node the line creates gets the
\* innermost open subgraph as parent and is appended to its children in
\* creation order; end pops the innermost subgraph only, or nothing
C7_SecondPassStep ==
    (pc = "second" /\ i < Len(lines)) =>
        LET open == Innermost(OpenAfter(i))
            created == SubSeq(keysOf(nodeMap'), Len(nodeMap) + 1, Len(nodeMap'))
        IN  /\ subgraphStack' = OpenAfter(i + 1)
            /\ SubSeq(nodeMap', 1, Len(nodeMap)) = nodeMap
            /\ \A k \in (Len(nodeMap) + 1)..Len(nodeMap') : nodeMap'[k].parent = open
            /\ \A o \in SubgraphObjects :
                  subgraphMapGet(subgraphMap', subgraphProto', o.id).children
                     = IF o.id = open THEN o.children \o created ELSE o.children
            /\ IsEnd(i + 1) =>
                  /\ subgraphStack' = SubSeq(subgraphStack, 1, Len(subgraphStack) - 1)
                  /\ UNCHANGED <<subgraphMap, subgraphProto, nodeMap, edgeMap>>

\* scenario S3 of the specification
C7_S3Result ==
    (mermaidCode = SourceS3 /\ Parsed) =>
        /\ keysOf(subgraphMap) = <<"outer", "inner">>
        /\ getOwn(subgraphMap, "outer").parent = Undefined
        /\ getOwn(subgraphMap, "inner").parent = "outer"
        /\ getOwn(subgraphMap, "inner").children = <<"X", "Y">>
        /\ getOwn(subgraphMap, "outer").children = <<"Z">>
        /\ hasOwn(nodeMap, "X") /\ getOwn(nodeMap, "X").parent = "inner"
        /\ hasOwn(nodeMap, "Y") /\ getOwn(nodeMap, "Y").parent = "inner"
        /\ hasOwn(nodeMap, "Z") /\ getOwn(nodeMap, "Z").parent = "outer"

\* C7: a subgraph's parent is the innermost subgraph still open at its
\* subgraph line (none at top level); a node's parent is the innermost
\* subgraph open at the line that creates it, and the node is appended to
\* that subgraph's children in creation order; end closes the innermost open
\* subgraph only and changes nothing when none is open; S3 gives
\* inner.parent = outer, X and Y in inner, Z in outer.
C7_ParentIsInnermostOpenSubgraph ==
    /\ []C7_S3Result
    /\ [][C7_FirstPassStep /\ C7_SecondPassStep]_vars

C7_Witness ==
    /\ mermaidCode = SourceS3
    /\ Parsed
    /\ subgraphStack = <<>>
    /\ getOwn(subgraphMap, "inner").parent = "outer"
    /\ getOwn(nodeMap, "Z").parent = "outer"

\* C10: parseMermaidToGraph returns no graph that violates one of I1 to I5;
\* a source text that would give one is rejected (the model has no such
\* outcome: the code raises no ParseError anywhere).
C10_ReturnedGraphsSatisfyInvariants == Parsed => (I1 /\ I2 /\ I3 /\ I4 /\ I5)

\* ------------------------------------------------------------------------
\* Properties of the layout and of the adapter
\* ------------------------------------------------------------------------

LaidOut == pc \in {"laid", "done"}

\* the node is locked in the prior state handed to autoLayout
LockedInPrior(id) ==
    hasOwn(existingState.nodes, id) /\ getOwn(existingState.nodes, id).locked

\* C8: in autoLayout(G, prior), the visual of every node of G that prior
\* holds with locked = true is exactly the prior's (position, size and locked
\* flag), and every node not locked in prior gets the position and size it
\* gets in autoLayout(G) without prior.
C8_LockedKeptOthersAsWithoutPrior ==
    LaidOut =>
        LET fresh == autoLayout(Graph, NoState, dagreStyle)
        IN  \A k \in DOMAIN nodeMap :
               LET id == nodeMap[k].id
               IN  /\ hasOwn(visualState.nodes, id)
                   /\ hasOwn(fresh.nodes, id)
                   /\ IF LockedInPrior(id)
                      THEN getOwn(visualState.nodes, id) = getOwn(existingState.nodes, id)
                      ELSE /\ getOwn(visualState.nodes, id).position
                                = getOwn(fresh.nodes, id).position
                           /\ getOwn(visualState.nodes, id).size
                                = getOwn(fresh.nodes, id).size

C8_Witness ==
    /\ pc = "laid"
    /\ \E k \in DOMAIN nodeMap : LockedInPrior(nodeMap[k].id)
    /\ \E k \in DOMAIN nodeMap :
          /\ hasOwn(existingState.nodes, nodeMap[k].id)
          /\ ~LockedInPrior(nodeMap[k].id)
    /\ \E k \in DOMAIN nodeMap : nodeMap[k].parent # Undefined

\* C9: toReactFlow(G, autoLayout(G)) has exactly |G.nodes| + |G.subgraphs|
\* node records and exactly |G.edges| edge records.
C9_OneRecordPerElement ==
    (pc = "done" /\ existingState = NoState) =>
        /\ Len(reactFlow.nodes) = Len(nodeMap) + Len(subgraphMap)
        /\ Len(reactFlow.edges) = Len(edgeMap)

\* ------------------------------------------------------------------------
\* The parser as a function of the source text
\* ------------------------------------------------------------------------

\* source lines 75-120: the first loop over the lines from line n on
RECURSIVE FirstPassFrom(_, _, _)
FirstPassFrom(ls, n, st) ==
    IF n >= Len(ls) THEN st
    ELSE FirstPassFrom(ls, n + 1, firstPassLine(ls[n + 1], n, st.stack, st.own, st.proto))

\* source lines 127-216: the second loop over the lines from line n on
RECURSIVE SecondPassFrom(_, _, _, _)
SecondPassFrom(ls, n, st, definitions) ==
    IF n >= Len(ls) THEN st
    ELSE SecondPassFrom(ls, n + 1, secondPassLine(ls[n + 1], n, st, definitions), definitions)

\* parseMermaidToGraph on a source text given as its sequence of lines
parseMermaidToGraph(code) ==
    LET cleaned == cleanLines(code)
        first == FirstPassFrom(cleaned, 0, [stack |-> <<>>, own |-> <<>>, proto |-> <<>>])
        second == SecondPassFrom(cleaned, 0,
                                 [stack |-> <<>>, own |-> first.own, proto |-> first.proto,
                                  nodes |-> <<>>, edges |-> <<>>, edgeIndex |-> 0],
                                 PreScanLines(cleaned, <<>>))
    IN  [meta |-> [direction |-> headerDirection(cleaned)],
         nodes |-> second.nodes,
         edges |-> second.edges,
         subgraphs |-> second.own,
         proto |-> second.proto]

\* ------------------------------------------------------------------------
\* Unclosed brackets, subgraph endpoints, duplicates, definitions, titles
\* ------------------------------------------------------------------------

\* the line has more opening than closing shape brackets
UnclosedBracket(line) == CountIn(line, OpenChars) > CountIn(line, CloseChars)

\* the source text without its lines with an unclosed bracket
WithoutUnclosed(code) == SelectSeq(code, LAMBDA line : ~UnclosedBracket(line))

\* C11: a line with an unclosed shape bracket is dropped and the later lines
\* are parsed on their own: the nodes, edges and subgraphs of the parsed
\* graph are those of the same text without the line
C11_UnclosedLineIsDropped ==
    (Parsed /\ WithoutUnclosed(mermaidCode) # mermaidCode)
        => LET without == parseMermaidToGraph(WithoutUnclosed(mermaidCode))
           IN  /\ nodeMap = without.nodes
               /\ edgeMap = without.edges
               /\ subgraphMap = without.subgraphs
               /\ subgraphProto = without.proto

\* the two loops of the parser and the function of the text agree
ParserIsAFunctionOfTheText == Parsed => Graph = parseMermaidToGraph(mermaidCode)

\* the ids of the subgraphs declared on the lines of the document
DeclaredSubgraphs == { DeclaredOn(n) : n \in DOMAIN lines } \ {Undefined}

\* C12: an edge endpoint that is the id of a subgraph declared anywhere in
\* the document stays the edge's endpoint and creates no node, a standalone
\* line of a subgraph's id creates no node, and no identifier is a key of
\* both graph.nodes and graph.subgraphs
C12_SubgraphIdsAreNoNodes ==
    pc = "parsed" =>
        LET found == EdgesDiscovered(Len(lines))
        IN  /\ \A k \in DOMAIN found :
                  (Str(found[k].sourceId) \in DeclaredSubgraphs
                   \/ Str(found[k].targetId) \in DeclaredSubgraphs)
                      => /\ k \in DOMAIN edgeMap
                         /\ edgeMap[k].from = Str(found[k].sourceId)
                         /\ edgeMap[k].to = Str(found[k].targetId)
            /\ NodeKeys \cap DeclaredSubgraphs = {}
            /\ NodeKeys \cap SubgraphKeys = {}

\* an edge from a subgraph declared on a later line, an edge to it, and a
\* standalone line of its id
C12_Witness ==
    /\ Parsed
    /\ "a" \in SubgraphKeys
    /\ \E n, m \in DOMAIN lines :
          /\ n < m
          /\ IsEdgeLine(n)
          /\ Str(parseEdgeLine(Trim(lines[n])).sourceId) = "a"
          /\ DeclaredOn(m) = "a"
    /\ \E n \in DOMAIN lines : Trim(lines[n]) = <<"a">>
    /\ \E k \in DOMAIN edgeMap : edgeMap[k].to = "a"
    /\ NodeKeys = {"X"}

\* line n declares the node id on its own or refers to it as an edge endpoint
NodeOccursOn(n, id) ==
    LET line == Trim(lines[n])
    IN  IF IsEdgeLine(n)
        THEN id \in { Str(parseEdgeLine(line).sourceId), Str(parseEdgeLine(line).targetId) }
        ELSE /\ line # <<>>
             /\ ~StartsWith(line, SubgraphKeyword, 0)
             /\ line # EndKeyword
             /\ ~\E pre \in SkippedPrefixes : StartsWith(line, pre, 0)
             /\ parseStandaloneNode(line, <<>>, subgraphMap, subgraphProto) # <<>>
             /\ Str(parseStandaloneNode(line, <<>>, subgraphMap, subgraphProto)) = id

\* the innermost subgraph open at line n
ScopeOf(n) == Innermost(OpenAfter(n))

\* C13: a node that occurs on several lines lying in different subgraph
\* scopes has the scope of its last occurrence as parent, and is in the
\* children of that subgraph and of no other
C13_LaterOccurrenceDecidesParent ==
    Parsed =>
        \A k \in DOMAIN nodeMap :
            LET occurrences == { n \in DOMAIN lines : NodeOccursOn(n, nodeMap[k].id) }
            IN  Cardinality({ ScopeOf(n) : n \in occurrences }) > 1
                    => LET last == CHOOSE n \in occurrences : \A m \in occurrences : m <= n
                       IN  /\ nodeMap[k].parent = ScopeOf(last)
                           /\ \A o \in SubgraphObjects :
                                 nodeMap[k].id \in Range(o.children) <=> o.id = ScopeOf(last)

\* the definitions found on line n read on its own, none on a structural line
DefinedOn(n) ==
    LET trimmedLine == Trim(lines[n])
    IN  IF \/ trimmedLine = <<>>
           \/ StartsWith(trimmedLine, SubgraphKeyword, 0)
           \/ trimmedLine = EndKeyword
           \/ StartsWith(trimmedLine, CommentPrefix, 0)
        THEN <<>>
        ELSE scanNodeDefinitions(trimmedLine, <<>>)

\* the first line of the document that defines a shape for the id, 0 if none
FirstDefinitionLine(id) ==
    LET defining == { n \in DOMAIN lines : id \in DOMAIN DefinedOn(n) }
    IN  IF defining = {} THEN 0 ELSE CHOOSE n \in defining : \A m \in defining : n <= m

\* the first line of the document on which the node id occurs, 0 if none
FirstOccurrenceLine(id) ==
    LET occurrences == { n \in DOMAIN lines : NodeOccursOn(n, id) }
    IN  IF occurrences = {} THEN 0 ELSE CHOOSE n \in occurrences : \A m \in occurrences : n <= m

\* C14: the kind and label of every node are those of the first shape
\* definition of its id in document order, also when the node is created on
\* an earlier line; a node without definition is a rect labelled by its id
C14_FirstDefinitionWins ==
    pc = "parsed" =>
        \A k \in DOMAIN nodeMap :
            LET first == FirstDefinitionLine(nodeMap[k].id)
            IN  IF first = 0
                THEN /\ nodeMap[k].kind = "rect"
                     /\ Str(nodeMap[k].label) = nodeMap[k].id
                ELSE /\ nodeMap[k].kind = DefinedOn(first)[nodeMap[k].id].kind
                     /\ nodeMap[k].label = DefinedOn(first)[nodeMap[k].id].label

\* a node created by a reference on a line ahead of its first definition,
\* with a second, different definition on a later line, next to a node
\* without definition
C14_Witness ==
    /\ Parsed
    /\ \E k \in DOMAIN nodeMap :
          LET id == nodeMap[k].id
              first == FirstDefinitionLine(id)
          IN  /\ first # 0
              /\ FirstOccurrenceLine(id) < first
              /\ nodeMap[k].kind = "round"
              /\ \E n \in DOMAIN lines :
                    /\ n > first
                    /\ id \in DOMAIN DefinedOn(n)
                    /\ DefinedOn(n)[id].kind # DefinedOn(first)[id].kind
                    /\ DefinedOn(n)[id].label # DefinedOn(first)[id].label
    /\ \E k \in DOMAIN nodeMap : FirstDefinitionLine(nodeMap[k].id) = 0

\* what follows the keyword on the subgraph line n
SubgraphRest(n) == Trim(SliceFrom(Trim(lines[n]), Len(SubgraphKeyword)))

\* the first word after the keyword on line n when line n is a subgraph line
\* and the word is a bare identifier, <<>> otherwise
BareSubgraphWord(n) ==
    LET rest == SubgraphRest(n)
        word == Slice(rest, 0, RunEndNot(rest, 0, SpaceChars \cup {"["}))
    IN  IF /\ StartsWith(Trim(lines[n]), SubgraphKeyword, 0)
           /\ word # <<>>
           /\ \A k \in DOMAIN word : word[k] \in IdChars
        THEN word ELSE <<>>

\* the title of the subgraph line n when its first token is a quoted string
QuotedSubgraphTitle(n) ==
    LET rest == SubgraphRest(n)
        close == IF At(rest, 0) \in QuoteChars THEN IndexOf(rest, <<At(rest, 0)>>, 1) ELSE -1
    IN  IF StartsWith(Trim(lines[n]), SubgraphKeyword, 0) /\ close # -1
        THEN <<Slice(rest, 1, close)>> ELSE <<>>

\* C15: the first pass enters a subgraph line whose first word is a bare
\* identifier under that identifier, whatever follows the word, and a line
\* whose first token is a quoted title under the slug of the title (or
\* sg-<lineIndex> when the slug is empty)
C15_BareIdentifierIsTheId ==
    (pc = "first" /\ i >= 1) =>
        /\ BareSubgraphWord(i) # <<>> => Top(subgraphStack) = Str(BareSubgraphWord(i))
        /\ QuotedSubgraphTitle(i) # <<>>
              => Top(subgraphStack) = Str(SlugId(QuotedSubgraphTitle(i)[1], i - 1))

\* ------------------------------------------------------------------------
\* Further properties of the layout and of the adapter
\* ------------------------------------------------------------------------

\* the subgraph is locked in the prior state handed to autoLayout
SubgraphLockedInPrior(id) ==
    hasOwn(existingState.subgraphs, id) /\ getOwn(existingState.subgraphs, id).locked

\* C16: for every subgraph of G that the prior state holds with locked =
\* true, autoLayout(G, prior) has an entry and the entry is the prior's,
\* exactly
C16_LockedSubgraphKept ==
    LaidOut =>
        \A k \in DOMAIN subgraphMap :
            SubgraphLockedInPrior(subgraphMap[k].id)
                => /\ hasOwn(visualState.subgraphs, subgraphMap[k].id)
                   /\ getOwn(visualState.subgraphs, subgraphMap[k].id)
                          = getOwn(existingState.subgraphs, subgraphMap[k].id)

WithinSize(n, s) ==
    /\ 0 <= n.position.x
    /\ n.position.x <= s.size.width
    /\ 0 <= n.position.y
    /\ n.position.y <= s.size.height

\* C18: in the state autoLayout returns, the top-left of every child node
\* of a subgraph S, relative to S, lies between 0 and the width of S on x
\* and between 0 and the height of S on y
C18_ChildrenWithinTheirSubgraph ==
    LaidOut =>
        \A k \in DOMAIN nodeMap :
            (nodeMap[k].parent # Undefined /\ hasOwn(visualState.subgraphs, nodeMap[k].parent))
                => WithinSize(getOwn(visualState.nodes, nodeMap[k].id),
                              getOwn(visualState.subgraphs, nodeMap[k].parent))

\* C18 as amended: the containment holds for every child node n of a
\* subgraph S when neither n nor S is held locked by the prior state
C18_UnlockedChildrenWithinTheirSubgraph ==
    pc = "laid" =>
        \A k \in DOMAIN nodeMap :
            (/\ nodeMap[k].parent # Undefined
             /\ hasOwn(visualState.subgraphs, nodeMap[k].parent)
             /\ ~LockedInPrior(nodeMap[k].id)
             /\ ~SubgraphLockedInPrior(nodeMap[k].parent))
                => WithinSize(getOwn(visualState.nodes, nodeMap[k].id),
                              getOwn(visualState.subgraphs, nodeMap[k].parent))

\* a prior state with locked entries and stale sizes, and two computed
\* children of one computed subgraph, the second one placed away from the
\* corner of the padding
C18_Witness ==
    /\ LaidOut
    /\ existingState = PriorMixed
    /\ \E j, k \in DOMAIN nodeMap :
          /\ j # k
          /\ nodeMap[j].parent = nodeMap[k].parent
          /\ nodeMap[k].parent # Undefined
          /\ hasOwn(visualState.subgraphs, nodeMap[k].parent)
          /\ ~SubgraphLockedInPrior(nodeMap[k].parent)
          /\ ~LockedInPrior(nodeMap[j].id)
          /\ ~LockedInPrior(nodeMap[k].id)
          /\ hasOwn(existingState.nodes, nodeMap[j].id)
          /\ getOwn(visualState.nodes, nodeMap[j].id).position
                # getOwn(visualState.nodes, nodeMap[k].id).position

\* the canvas positions layoutMetaGraph gives the subgraphs of the graph
AbsolutePositions ==
    LET placed(subgraphLayouts) ==
            layoutMetaGraph(Graph, subgraphLayouts, direction, dagreStyle).subgraphPositions
    IN  placed(layoutSubgraphs(Graph, direction, dagreStyle))

\* the least position of a nested subgraph relative to its parent
ContentCorner ==
    [x |-> Px(LAYOUT_SPACING.SUBGRAPH_PADDING),
     y |-> Px(LAYOUT_SPACING.SUBGRAPH_HEADER_HEIGHT + LAYOUT_SPACING.SUBGRAPH_CONTENT_TOP_MARGIN
              + LAYOUT_SPACING.SUBGRAPH_PADDING)]

\* the entry of subgraph sg is its canvas position, taken relative to its
\* parent's and inside the parent's content area when it has a parent
RelativeToParent(sg, absolute) ==
    LET visual == getOwn(visualState.subgraphs, sg.id)
        own == getOwn(absolute, sg.id)
        parent == getOwn(absolute, sg.parent)
    IN  IF sg.parent # Undefined
        THEN /\ hasOwn(absolute, sg.parent)
             /\ visual.position = [x |-> own.x - parent.x, y |-> own.y - parent.y]
             /\ visual.position.x >= ContentCorner.x
             /\ visual.position.y >= ContentCorner.y
        ELSE visual.position = [x |-> own.x, y |-> own.y]

\* C19: in the state autoLayout returns, the position of a subgraph with a
\* parent is its canvas position minus the parent's and at least
\* (SUBGRAPH_PADDING, SUBGRAPH_HEADER_HEIGHT + SUBGRAPH_CONTENT_TOP_MARGIN +
\* SUBGRAPH_PADDING); a subgraph without parent keeps its canvas position
C19_NestedPositionRelativeToParent ==
    LaidOut =>
        \E absolute \in {AbsolutePositions} :
            \A k \in DOMAIN subgraphMap :
                hasOwn(visualState.subgraphs, subgraphMap[k].id)
                    => RelativeToParent(subgraphMap[k], absolute)

\* C19 as amended: the same for every subgraph that the prior state does
\* not hold locked
C19_UnlockedNestedPositionRelativeToParent ==
    pc = "laid" =>
        \E absolute \in {AbsolutePositions} :
            \A k \in DOMAIN subgraphMap :
                (/\ hasOwn(visualState.subgraphs, subgraphMap[k].id)
                 /\ ~SubgraphLockedInPrior(subgraphMap[k].id))
                    => RelativeToParent(subgraphMap[k], absolute)

\* a computed subgraph nested in a subgraph that the prior state holds
\* locked, next to subgraphs without parent
C19_Witness ==
    /\ LaidOut
    /\ \E k \in DOMAIN subgraphMap :
          /\ subgraphMap[k].parent # Undefined
          /\ hasOwn(visualState.subgraphs, subgraphMap[k].id)
          /\ ~SubgraphLockedInPrior(subgraphMap[k].id)
          /\ SubgraphLockedInPrior(subgraphMap[k].parent)
          /\ hasOwn(visualState.subgraphs, subgraphMap[k].parent)
          /\ getOwn(visualState.subgraphs, subgraphMap[k].id).position
                # getOwn(AbsolutePositions, subgraphMap[k].id)

\* the ids of the node records toReactFlow emitted
RecordIds == { reactFlow.nodes[k].id : k \in DOMAIN reactFlow.nodes }

\* the id an edge endpoint has among the records: prefixed exactly when the
\* endpoint is the id of a subgraph of the graph
EndpointRecordId(id) == IF id \in SubgraphKeys THEN "subgraph-" \o id ELSE id

\* C20: in toReactFlow(G, autoLayout(G)) every reference resolves: the
\* record of a subgraph has the id "subgraph-" + id, the parentNode of every
\* record is "subgraph-" + the parent of its element and the id of a record
\* earlier in the list, and the source and target of every edge record are
\* ids of emitted node records, prefixed exactly for subgraph endpoints
C20_EveryReferenceResolves ==
    (pc = "done" /\ existingState = NoState) =>
        /\ \A k \in DOMAIN subgraphMap :
              hasOwn(visualState.subgraphs, subgraphMap[k].id)
                  => \E r \in DOMAIN reactFlow.nodes :
                        /\ reactFlow.nodes[r].id = "subgraph-" \o subgraphMap[k].id
                        /\ reactFlow.nodes[r].isSubgraph
                        /\ reactFlow.nodes[r].parentNode = parentNodeOf(subgraphMap[k].parent)
        /\ \A k \in DOMAIN nodeMap :
              \E r \in DOMAIN reactFlow.nodes :
                  /\ reactFlow.nodes[r].id = nodeMap[k].id
                  /\ ~reactFlow.nodes[r].isSubgraph
                  /\ reactFlow.nodes[r].parentNode = parentNodeOf(nodeMap[k].parent)
        /\ \A r \in DOMAIN reactFlow.nodes :
              reactFlow.nodes[r].parentNode # Undefined
                  => \E q \in 1..(r - 1) : reactFlow.nodes[q].id = reactFlow.nodes[r].parentNode
        /\ Len(reactFlow.edges) = Len(edgeMap)
        /\ \A k \in DOMAIN reactFlow.edges :
              /\ reactFlow.edges[k].source = EndpointRecordId(edgeMap[k].from)
              /\ reactFlow.edges[k].target = EndpointRecordId(edgeMap[k].to)
              /\ reactFlow.edges[k].source \in RecordIds
              /\ reactFlow.edges[k].target \in RecordIds

\* C21: in the output of toReactFlow every node record id is a node id or
\* "subgraph-" + a subgraph id, every edge record id is an edge id, and no
\* two node records and no two edge records share an id
C21_RecordIdsAreGraphIds ==
    pc = "done" =>
        /\ \A r \in DOMAIN reactFlow.nodes :
              IF reactFlow.nodes[r].isSubgraph
              THEN \E sg \in SubgraphKeys : reactFlow.nodes[r].id = "subgraph-" \o sg
              ELSE reactFlow.nodes[r].id \in NodeKeys
        /\ \A r \in DOMAIN reactFlow.edges : reactFlow.edges[r].id \in Range(keysOf(edgeMap))
        /\ \A q, r \in DOMAIN reactFlow.nodes :
              q # r => reactFlow.nodes[q].id # reactFlow.nodes[r].id
        /\ \A q, r \in DOMAIN reactFlow.edges :
              q # r => reactFlow.edges[q].id # reactFlow.edges[r].id

\* records of a subgraph, of a node inside it and of two edges between the
\* same endpoints
C21_Witness ==
    /\ pc = "done"
    /\ \E q, r \in DOMAIN reactFlow.nodes :
          /\ reactFlow.nodes[q].isSubgraph
          /\ ~reactFlow.nodes[r].isSubgraph
          /\ reactFlow.nodes[r].parentNode = reactFlow.nodes[q].id
    /\ \E q, r \in DOMAIN reactFlow.edges :
          /\ q # r
          /\ reactFlow.edges[q].source = reactFlow.edges[r].source
          /\ reactFlow.edges[q].target = reactFlow.edges[r].target

\* ------------------------------------------------------------------------
\* Dialects, empty sources
\* ------------------------------------------------------------------------

\* C22: the S5 source is parsed as C4: the result has dialect c4context and
\* the title "System Context", a person node u, a system node s, and one
\* directed edge from u to s with label "Uses" and technology "HTTPS"
C22_S5IsParsedAsC4 ==
    (pc = "parsed" /\ mermaidCode = SourceS5) =>
        /\ "diagramType" \in DOMAIN Graph.meta /\ Graph.meta.diagramType = "c4context"
        /\ "title" \in DOMAIN Graph.meta /\ Graph.meta.title = "System Context"
        /\ hasOwn(nodeMap, "u") /\ "c4Type" \in DOMAIN getOwn(nodeMap, "u")
        /\ getOwn(nodeMap, "u").c4Type = "person"
        /\ hasOwn(nodeMap, "s") /\ "c4Type" \in DOMAIN getOwn(nodeMap, "s")
        /\ getOwn(nodeMap, "s").c4Type = "system"
        /\ Len(edgeMap) = 1
        /\ edgeMap[1].from = "u" /\ edgeMap[1].to = "s" /\ edgeMap[1].kind = "directed"
        /\ Str(edgeMap[1].label) = "Uses"
        /\ "technology" \in DOMAIN edgeMap[1] /\ edgeMap[1].technology = "HTTPS"

\* the line is blank or a %% comment
BlankOrComment(line) == Trim(line) = <<>> \/ StartsWith(Trim(line), CommentPrefix, 0)

\* C23: a source that is empty or holds only blank lines and %% comment
\* lines parses to the empty graph with direction TB, its layout has no node
\* and no subgraph entry, and the adapter returns no record
C23_EmptySourceEmptyGraph ==
    (pc = "done" /\ \A n \in DOMAIN mermaidCode : BlankOrComment(mermaidCode[n])) =>
        /\ nodeMap = <<>> /\ edgeMap = <<>>
        /\ subgraphMap = <<>> /\ subgraphProto = <<>>
        /\ direction = "TB"
        /\ visualState.nodes = <<>> /\ visualState.subgraphs = <<>>
        /\ reactFlow.nodes = <<>> /\ reactFlow.edges = <<>>

C23_Witness ==
    /\ pc = "done"
    /\ Len(mermaidCode) = 2
    /\ \A n \in DOMAIN mermaidCode : BlankOrComment(mermaidCode[n])
    /\ \E n \in DOMAIN mermaidCode : Trim(mermaidCode[n]) # <<>>
    /\ existingState.nodes # <<>>

\* ------------------------------------------------------------------------
\* The canvas when it is not interactive
\* ------------------------------------------------------------------------

\* C24: when the prop interactive is false, in every state reached by user
\* events the local nodes and edges equal the ones passed in by the parent
\* and neither the onNodesChange nor the onEdgesChange callback was called
C24_NotInteractiveNothingChanges ==
    (pc = "canvas" /\ ~flowDiagram.interactive) =>
        /\ flowDiagram.nodes = initialNodes
        /\ flowDiagram.edges = initialEdges
        /\ ~flowDiagram.onNodesChangeCalled
        /\ ~flowDiagram.onEdgesChangeCalled

\* ------------------------------------------------------------------------
\* Nested placement and subgraph sizes
\* ------------------------------------------------------------------------

\* C25: the nested placement of phase 3 ends, and when the parent relation
\* is acyclic it ends with a position for every subgraph of the graph: the
\* layout holds an entry for each of them
C25_AcyclicHierarchyFullyPlaced ==
    (pc = "laid" /\ I3) => \A sg \in SubgraphKeys : hasOwn(visualState.subgraphs, sg)

\* the subgraph has a direct child subgraph
HasChildSubgraph(s) == \E k \in DOMAIN subgraphMap : subgraphMap[k].parent = s

\* the least size of phase 1b: 300 x 200
AtLeastMinimum(size) == size.width >= Px(300) /\ size.height >= Px(200)

\* C26: after phase 1b every subgraph of the graph, with or without child
\* subgraphs and child nodes, is at least 300 wide and 200 high in the
\* layout and in the returned visual state
C26_EverySubgraphAtLeastMinimum ==
    pc = "laid" =>
        /\ \A layout \in Range(layoutSubgraphs(Graph, direction, dagreStyle)) :
               AtLeastMinimum(layout)
        /\ \A v \in Range(visualState.subgraphs) : AtLeastMinimum(v.size)

\* C26, amended: after phase 1b every subgraph with a direct child subgraph
\* is at least 300 wide and 200 high in the layout, and in the returned
\* visual state when it has an entry there that is not kept from a locked
\* entry of the prior state
C26_ParentSubgraphsAtLeastMinimum ==
    pc = "laid" =>
        /\ \A layout \in Range(layoutSubgraphs(Graph, direction, dagreStyle)) :
               HasChildSubgraph(layout.id) => AtLeastMinimum(layout)
        /\ \A v \in Range(visualState.subgraphs) :
               (HasChildSubgraph(v.id) /\ ~SubgraphLockedInPrior(v.id)) => AtLeastMinimum(v.size)

C26_Witness ==
    /\ pc = "laid"
    /\ \E v, w \in Range(visualState.subgraphs) :
          /\ HasChildSubgraph(v.id) /\ ~SubgraphLockedInPrior(v.id)
          /\ v.size.width = Px(300)
          /\ getOwn(subgraphMap, w.id).parent = v.id
          /\ ~AtLeastMinimum(w.size)

\* C27: phase 1b enlarges a subgraph after all its descendants have their
\* final size, so for an acyclic hierarchy every subgraph C with parent P
\* ends with P.width >= C.width + 4 * SUBGRAPH_PADDING and P.height >=
\* C.height + SUBGRAPH_HEADER_HEIGHT + SUBGRAPH_CONTENT_TOP_MARGIN +
\* 4 * SUBGRAPH_PADDING, on the final sizes of both
C27_ParentHoldsFinalChild ==
    (pc = "laid" /\ I3) =>
        LET S == LAYOUT_SPACING
        IN  \A C, P \in Range(layoutSubgraphs(Graph, direction, dagreStyle)) :
                C.parentId = P.id =>
                    /\ P.width >= C.width + Px(4 * S.SUBGRAPH_PADDING)
                    /\ P.height >= C.height + Px(S.SUBGRAPH_HEADER_HEIGHT
                                                 + S.SUBGRAPH_CONTENT_TOP_MARGIN
                                                 + 4 * S.SUBGRAPH_PADDING)

\* ------------------------------------------------------------------------
\* The edges of the meta-graph
\* ------------------------------------------------------------------------

\* C28: with container(n) = n.parent if set, else n itself, the weight
\* recorded for an ordered pair (A, B), A # B, is the number of edges
\* u -> v between nodes with container(u) = A and container(v) = B (edges
\* within one container and edges with an endpoint that is no node add no
\* weight), and a meta-edge A -> B joins two top-level vertices
C28_WeightsCountEdgesBetweenContainers ==
    pc = "laid" =>
        LET weights == calculateConnectionWeights(Graph)
            layouts == layoutSubgraphs(Graph, direction, dagreStyle)
            container(n) == IF n.parent # Undefined THEN n.parent ELSE n.id
            between(A, B) ==
                { k \in DOMAIN edgeMap :
                      /\ edgeMap[k].from \in NodeKeys /\ edgeMap[k].to \in NodeKeys
                      /\ container(getOwn(nodeMap, edgeMap[k].from)) = A
                      /\ container(getOwn(nodeMap, edgeMap[k].to)) = B }
            recorded(A, B) ==
                IF hasOwn(weights, A) /\ hasOwn(getOwn(weights, A).targets, B)
                THEN getOwn(getOwn(weights, A).targets, B).weight
                ELSE 0
            containers ==
                { container(n) : n \in Range(nodeMap) }
                    \cup Range(keysOf(weights))
                    \cup UNION { Range(keysOf(weights[s].targets)) : s \in DOMAIN weights }
            topLevel ==
                { l.id : l \in { l \in Range(layouts) : l.parentId = Undefined } }
                    \cup { n.id : n \in { n \in Range(nodeMap) : n.parent = Undefined } }
        IN  /\ \A A, B \in containers : A # B => recorded(A, B) = Cardinality(between(A, B))
            /\ \A e \in metaEdges(Graph, layouts) : e.v \in topLevel /\ e.w \in topLevel

\* ------------------------------------------------------------------------
\* The hierarchical order of the subgraphs
\* ------------------------------------------------------------------------

\* the place of id in the sequence of ids
IndexIn(order, id) == CHOOSE k \in DOMAIN order : order[k] = id

\* the chain of parents of subgraph s ends at a top-level subgraph within n
\* parent links
RECURSIVE RootedWithin(_, _)
RootedWithin(s, n) ==
    /\ s \in SubgraphKeys
    /\ \/ getOwn(subgraphMap, s).parent = Undefined
       \/ n > 0 /\ RootedWithin(getOwn(subgraphMap, s).parent, n - 1)

Rooted(s) == RootedWithin(s, Len(subgraphMap))

\* the subgraph is a member of a parent cycle
OnParentCycle(s) == s \in AncestorsWithin(s, Cardinality(SubgraphObjects))

OccurrencesIn(o, n) == { j \in DOMAIN o.children : o.children[j] = n }

\* C30: in the returned graph the children lists partition the parented
\* nodes: a node whose parent is S is exactly once in the children of the
\* subgraph S of the graph and in no other children list, and a node without
\* parent is in no children list
C30_ChildrenPartitionParentedNodes ==
    pc = "parsed" =>
        \A k \in DOMAIN nodeMap :
            /\ nodeMap[k].parent # Undefined =>
                   /\ hasOwn(subgraphMap, nodeMap[k].parent)
                   /\ Cardinality(OccurrencesIn(getOwn(subgraphMap, nodeMap[k].parent),
                                                nodeMap[k].id)) = 1
            /\ \A j \in DOMAIN subgraphMap :
                   subgraphMap[j].id # nodeMap[k].parent =>
                       OccurrencesIn(subgraphMap[j], nodeMap[k].id) = {}

====
